---- MODULE Spec2Model ----
\* Weather lookup service (services/weatherService.ts): cache-aside lookup over
\* a redis cache, best-effort history persistence, role-scoped history reads and
\* cache clearing; user accounts and tokens (services/authService.ts), and the
\* middleware chains of the routes.  Every await of a service is a separate
\* step, so calls of several requests interleave at exactly the I/O boundaries
\* of the code.
EXTENDS Integers, Sequences, FiniteSets, TLC

\* ---------------------------------------------------------------- bounds
MaxCalls == 3         \* service calls started in one run
TickStep == 150       \* seconds the clock advances in one step
MaxUsers == 3         \* user rows created in one run
MaxRecords == 25      \* history rows the table holds when paging starts
TokenStep == 12       \* hours the clock advances in one step

\* ------------------------------------------------------ program constants
cacheExpiry == 300

\* ------------------------------------------------------------ the inputs
Reqs == {1, 2}                      \* concurrently served requests
UserIds == {"u1", "u2"}
UserRole == {"ADMIN", "USER"}

\* city strings, as sequences of characters
Cities == {<<"I", "s">>, <<"i", "s">>, <<"A", "n">>}
EmptyString == <<>>

Undefined == "undefined"
Null == "null"

\* OpenWeatherResponse bodies the provider may answer with
OpenWeatherResponses ==
  { [name |-> <<"I", "s">>, sys |-> [country |-> "TR"],
     main |-> [temp |-> 25, humidity |-> 60],
     weather |-> << [description |-> "Sunny", icon |-> "01d"] >>],
    [name |-> <<"A", "n">>, sys |-> [country |-> Undefined],
     main |-> [temp |-> 18, humidity |-> 40],
     weather |-> << >>] }

\* what one axios.get may end in: a 2xx body, an HTTP error status, or no
\* response at all (network error)
AxiosOutcomes ==
  { [kind |-> "ok", status |-> 200, data |-> d] : d \in OpenWeatherResponses }
  \cup { [kind |-> "http", status |-> s, data |-> << >>] : s \in {404, 500} }
  \cup { [kind |-> "network", status |-> 0, data |-> << >>] }

\* ----------------------------------------------------------- strings
LowerChar(c) ==
  CASE c = "I" -> "i"
    [] c = "S" -> "s"
    [] c = "A" -> "a"
    [] c = "N" -> "n"
    [] OTHER -> c

toLowerCase(s) == [i \in 1..Len(s) |-> LowerChar(s[i])]

CacheKey_NoLower(city) == <<"weather:">> \o city

\* `weather:${city.toLowerCase()}`
CacheKey(city) == <<"weather:">> \o toLowerCase(city)

\* JS truthiness of a string
Truthy(s) == Len(s) > 0

\* ------------------------------------------------------------- JSON
StringFields == {"country", "description", "icon"}

\* reading a property of a JS object: a missing property reads as undefined
Prop(o, k) == IF k \in DOMAIN o THEN o[k] ELSE Undefined

IsUndefined(o, k) == k \notin DOMAIN o \/ (k \in StringFields /\ o[k] = Undefined)

JSONstringify_Lossy(o) ==
  [k \in {f \in DOMAIN o : ~IsUndefined(o, f) /\ f # "icon"} |-> o[k]]

\* JSON.stringify drops the properties whose value is undefined
JSONstringify(o) == [k \in {f \in DOMAIN o : ~IsUndefined(o, f)} |-> o[k]]

\* JSON.parse gives back an object with exactly the serialized properties
JSONparse(s) == [k \in DOMAIN s |-> s[k]]

\* ------------------------------------------------------------- state
VARIABLES
  cache,      \* redis: key -> [value, ttl, writer], the live keys with their
              \* remaining TTL; writer is a history field, the city string of
              \* the lookup that wrote the entry
  started,    \* number of service calls started so far
  history,    \* the weather_queries table, in creation order
  proc,       \* per request: the call it serves and where it stands
  cleared,    \* history variable, per key: "cleared" once clearCache(city) has
              \* deleted it, "rewritten" once a lookup has set it again after
              \* that, "no" from the next cache read of the key on
  users,      \* the users table, in creation order
  created,    \* number of user rows created so far (ids are never reused)
  tokens,     \* the tokens issued so far: token -> hours until it expires
  http,       \* per request: the route asked for, the Authorization header
              \* sent and what the middleware chain made of the request
  client,     \* the last request sent by the client that runs the register,
              \* login, lookup, history sequence; "none" without such a client
  nodeEnv     \* process.env['NODE_ENV'] of the running process

weatherVars == <<cache, started, history, proc, cleared>>
accountVars == <<users, created, tokens, http, client, nodeEnv>>
vars == <<cache, started, history, proc, cleared, users, created, tokens, http, client,
         nodeEnv>>

NoData == << >>
NoError == << >>

\* no user row (null), no token, no Authorization header, no identity on the
\* request
NoUser == [id |-> Null]
NoToken == [form |-> Undefined]
NoHeader == [scheme |-> Undefined]
NoIdentity == [userId |-> Undefined]

Idle == [op |-> "none", pc |-> "idle", city |-> EmptyString, userId |-> "",
         role |-> "", cacheKey |-> EmptyString, hit |-> FALSE,
         cachedData |-> NoData, weatherData |-> NoData, providerCalls |-> 0,
         q |-> EmptyString, status |-> -1, afterClear |-> "no",
         saved |-> FALSE, result |-> NoData, error |-> NoError,
         keys |-> {}, page |-> 0, limit |-> 0, data |-> << >>, total |-> -1,
         email |-> "", password |-> "", name |-> "", user |-> NoUser,
         token |-> NoToken]

\* what stays of a call once it has returned or thrown
Done(p) == [Idle EXCEPT !.op = p.op, !.pc = "done", !.hit = p.hit,
                        !.city = IF p.op = "clear" THEN p.city ELSE EmptyString,
                        !.keys = p.keys,
                        !.providerCalls = p.providerCalls, !.status = p.status,
                        !.saved = p.saved,
                        !.result = p.result, !.error = p.error,
                        !.data = p.data, !.total = p.total]

Vacant(r) == proc[r].pc \in {"idle", "done"}

\* a new call is served in the first vacant slot; a run ends after MaxCalls
\* calls, or with the sequence of the client
Free(r) ==
  /\ started < MaxCalls \/ client # "none"
  /\ Vacant(r)
  /\ \A q \in Reqs : q < r => ~Vacant(q)

Keys == {CacheKey(c) : c \in Cities}

\* ------------------------------------------------------ users and tokens
Emails == {"a@x", "b@x"}
Passwords == {"secret1", "secret2"}
Names == {"Al"}

\* the id of the n-th row created: @default(cuid()) gives every row a fresh id
UserIdOf(n) == <<"u1", "u2", "u3", "u4">>[n]

SaltRounds == 12

\* bcrypt.hash(password, 12)
Hash(password) == <<"bcrypt", SaltRounds, password>>

Compare_Always(password, hash) == TRUE

\* bcrypt.compare(password, hash)
Compare(password, hash) == hash = Hash(password)

\* process.env['JWT_SECRET'] and the lifetime of JWT_EXPIRES_IN || '24h', in hours
JwtSecret == "JWT_SECRET"
JwtExpiresIn == 24

\* jwt.sign(payload, secret, {expiresIn}): the token carries the payload and
\* its time of issue (iat) and is signed with the secret
GenerateToken(payload, iat) ==
  [form |-> "jwt", payload |-> payload, iat |-> iat, secret |-> JwtSecret]

\* two accounts registered earlier: a USER and an ADMIN
SeedUsers ==
  << [id |-> UserIdOf(1), email |-> "a@x", password |-> Hash("secret1"),
      name |-> "Al", role |-> "USER"],
     [id |-> UserIdOf(2), email |-> "b@x", password |-> Hash("secret2"),
      name |-> "Al", role |-> "ADMIN"] >>

NoHttp == [route |-> "none", header |-> NoHeader, status |-> 0, error |-> NoError,
           user |-> NoIdentity]

\* the service with an empty cache; `accounts` are the user rows and `rows`
\* the history rows that exist, `issued` the tokens handed out earlier, and
\* `at` the position of the client; the process runs with NODE_ENV = env
InitEnv(accounts, rows, issued, at, env) ==
  /\ cache = << >>
  /\ started = 0
  /\ history = rows
  /\ proc = [r \in Reqs |-> Idle]
  /\ cleared = [k \in Keys |-> "no"]
  /\ users = accounts
  /\ created = Len(accounts)
  /\ tokens = issued
  /\ http = [r \in Reqs |-> NoHttp]
  /\ client = at
  /\ nodeEnv = env

InitWith(accounts, rows, issued, at) == InitEnv(accounts, rows, issued, at, "development")

Init == InitWith(SeedUsers, << >>, << >>, "none")

\* the empty store
InitEmpty == InitWith(<< >>, << >>, << >>, "none")

\* the tokens of earlier logins of the two accounts
TokenOfUser(u, iat) ==
  GenerateToken([userId |-> u.id, email |-> u.email, role |-> u.role], iat)

UserToken == TokenOfUser(SeedUsers[1], 0)
AdminToken == TokenOfUser(SeedUsers[2], 1)

\* what a client may send for a token without having been issued one: a token
\* with an ADMIN payload signed with another secret, and a string that is no JWT
ForgedToken ==
  [form |-> "jwt", payload |-> [userId |-> UserIdOf(2), email |-> "b@x", role |-> "ADMIN"],
   iat |-> 0, secret |-> "other-secret"]
GarbageToken == [form |-> "garbage", payload |-> NoIdentity, iat |-> 0, secret |-> ""]

\* both accounts hold a token: the ADMIN's is fresh, the USER's has TokenStep
\* hours left
InitGate ==
  InitWith(SeedUsers, << >>,
           [t \in {UserToken, AdminToken} |->
              IF t = AdminToken THEN JwtExpiresIn ELSE TokenStep],
           "none")

\* ------------------------------------------------------------- redis
RedisGet(k) == IF k \in DOMAIN cache THEN cache[k].value ELSE NoData

RedisSetEx_Twice(k, ttl, v, writer) ==
  [x \in DOMAIN cache \cup {k} |->
     IF x = k THEN [value |-> v, ttl |-> 2 * ttl, writer |-> writer] ELSE cache[x]]

RedisSetEx_IfAbsent(k, ttl, v, writer) ==
  [x \in DOMAIN cache \cup {k} |->
     IF x \in DOMAIN cache THEN cache[x] ELSE [value |-> v, ttl |-> ttl, writer |-> writer]]

RedisSetEx(k, ttl, v, writer) ==
  [x \in DOMAIN cache \cup {k} |->
     IF x = k THEN [value |-> v, ttl |-> ttl, writer |-> writer] ELSE cache[x]]

RedisDel_Nothing(ks) == cache

RedisDel_First(ks) ==
  [x \in DOMAIN cache \ {CHOOSE k \in ks : TRUE} |-> cache[x]]

\* del(key | keys[])
RedisDel(ks) == [x \in DOMAIN cache \ ks |-> cache[x]]

\* keys('weather:*')
RedisKeys == {k \in DOMAIN cache : Head(k) = "weather:"}

\* ------------------------------------------------------------ errors
FetchError == <<"Failed to fetch weather data">>
NotFoundError(city) == <<"City '", city, "' not found">>

\* the catch block of getWeatherData
CatchFetch_Generic(city, outcome) == FetchError

CatchFetch_AnyStatus(city, outcome) ==
  IF outcome.kind = "http" THEN NotFoundError(city) ELSE FetchError

CatchFetch(city, outcome) ==
  IF outcome.kind = "http" /\ outcome.status = 404
  THEN NotFoundError(city)
  ELSE FetchError

RedisFailure == [kind |-> "redis", status |-> 0, data |-> << >>]

\* ------------------------------------------------------- getWeatherData
ProviderQuery_Lower(city) == toLowerCase(city)

\* params.q of the axios.get
ProviderQuery(city) == city

\* the call up to and including `await redisClient.get(cacheKey)`
GetWeatherData(r, city, userId) ==
  /\ Free(r)
  /\ LET cacheKey == CacheKey(city)
         begun == [Idle EXCEPT !.op = "weather", !.city = city,
                                 !.userId = userId, !.cacheKey = cacheKey]
     IN \E redisOk \in BOOLEAN :
          /\ IF ~redisOk
             THEN proc' = [proc EXCEPT ![r] =
                     Done([begun EXCEPT !.error = CatchFetch(city, RedisFailure)])]
             ELSE LET cachedData == RedisGet(cacheKey)
                  IN IF cachedData # NoData
                     THEN proc' = [proc EXCEPT ![r] =
                             [begun EXCEPT !.pc = "save", !.hit = TRUE,
                                             !.afterClear = cleared[cacheKey],
                                             !.cachedData = cachedData,
                                             !.weatherData = JSONparse(cachedData)]]
                     ELSE proc' = [proc EXCEPT ![r] =
                             [begun EXCEPT !.pc = "fetch", !.q = ProviderQuery(city),
                                             !.afterClear = cleared[cacheKey]]]
          /\ cleared' = IF redisOk THEN [cleared EXCEPT ![cacheKey] = "no"] ELSE cleared
  /\ started' = started + 1
  /\ UNCHANGED <<cache, history>>

\* the WeatherData built from response.data
BuildWeatherData(data) ==
  [city |-> data.name,
   country |-> data.sys.country,
   temperature |-> data.main.temp,
   humidity |-> data.main.humidity,
   description |-> IF Len(data.weather) > 0 THEN data.weather[1].description ELSE "",
   icon |-> IF Len(data.weather) > 0 THEN data.weather[1].icon ELSE ""]

\* `await axios.get(...)` resolves or rejects
ProviderRespond(r) ==
  /\ proc[r].pc = "fetch"
  /\ \E outcome \in AxiosOutcomes :
       proc' = [proc EXCEPT ![r] =
         IF outcome.kind = "ok"
         THEN [@ EXCEPT !.pc = "setEx", !.providerCalls = @ + 1,
                        !.status = outcome.status,
                        !.weatherData = BuildWeatherData(outcome.data)]
         ELSE Done([@ EXCEPT !.providerCalls = @ + 1, !.status = outcome.status,
                              !.error = CatchFetch(proc[r].city, outcome)])]
  /\ UNCHANGED <<cache, started, history, cleared>>

\* `await redisClient.setEx(cacheKey, this.cacheExpiry, JSON.stringify(weatherData))`
CacheSet(r) ==
  /\ proc[r].pc = "setEx"
  /\ \E redisOk \in BOOLEAN :
       IF redisOk
       THEN /\ cache' = RedisSetEx(proc[r].cacheKey, cacheExpiry,
                                   JSONstringify(proc[r].weatherData), proc[r].city)
            /\ proc' = [proc EXCEPT ![r].pc = "save"]
            /\ cleared' = [cleared EXCEPT ![proc[r].cacheKey] =
                             IF @ = "no" THEN "no" ELSE "rewritten"]
       ELSE /\ proc' = [proc EXCEPT ![r] =
                          Done([@ EXCEPT !.error = CatchFetch(proc[r].city, RedisFailure)])]
            /\ UNCHANGED <<cache, cleared>>
  /\ UNCHANGED <<started, history>>

\* the foreign key of weather_queries.userId: a row can only be created for a
\* user that exists
UserExists(userId) == \E i \in 1..Len(users) : users[i].id = userId

NullIfUndefined(o, k) == IF IsUndefined(o, k) THEN Null ELSE o[k]

WeatherQueryData_NoUser(weatherData, userId) ==
  [city |-> Prop(weatherData, "city"),
   country |-> NullIfUndefined(weatherData, "country"),
   temperature |-> Prop(weatherData, "temperature"),
   humidity |-> Prop(weatherData, "humidity"),
   description |-> NullIfUndefined(weatherData, "description"),
   icon |-> NullIfUndefined(weatherData, "icon"),
   userId |-> "u1"]

\* the `data` of prisma.weatherQuery.create in saveWeatherQuery
WeatherQueryData(weatherData, userId) ==
  [city |-> Prop(weatherData, "city"),
   country |-> NullIfUndefined(weatherData, "country"),
   temperature |-> Prop(weatherData, "temperature"),
   humidity |-> Prop(weatherData, "humidity"),
   description |-> NullIfUndefined(weatherData, "description"),
   icon |-> NullIfUndefined(weatherData, "icon"),
   userId |-> userId]

SaveWeatherQuery_Throwing(r) ==
  /\ proc[r].pc = "save"
  /\ \E dbOk \in {ok \in BOOLEAN : ok => UserExists(proc[r].userId)} :
       /\ history' = IF dbOk
                     THEN Append(history, WeatherQueryData(proc[r].weatherData, proc[r].userId))
                     ELSE history
       /\ proc' = [proc EXCEPT ![r] =
                     IF dbOk
                     THEN Done([@ EXCEPT !.saved = dbOk, !.result = proc[r].weatherData])
                     ELSE Done([@ EXCEPT !.error = FetchError])]
  /\ UNCHANGED <<cache, started, cleared>>

\* `await this.saveWeatherQuery(weatherData, userId); return weatherData`:
\* the create succeeds or throws (always when userId is no user's id), and a
\* throw is caught inside saveWeatherQuery
SaveWeatherQuery(r) ==
  /\ proc[r].pc = "save"
  /\ \E dbOk \in {ok \in BOOLEAN : ok => UserExists(proc[r].userId)} :
       /\ history' = IF dbOk
                     THEN Append(history, WeatherQueryData(proc[r].weatherData, proc[r].userId))
                     ELSE history
       /\ proc' = [proc EXCEPT ![r] =
                     Done([@ EXCEPT !.saved = dbOk, !.result = proc[r].weatherData])]
  /\ UNCHANGED <<cache, started, cleared>>

\* ----------------------------------------------------- getWeatherQueries
DefaultPage == 1
DefaultLimit == 10

Pages == {DefaultPage, 2}
Limits == {1, DefaultLimit}

FetchQueriesError == <<"Failed to fetch weather queries">>

RECURSIVE Reverse(_)
Reverse(s) == IF s = << >> THEN << >> ELSE Append(Reverse(Tail(s)), Head(s))

WhereClause_Nobody(userId, userRole) == [all |-> FALSE, userId |-> ""]

WhereClause_Own(userId, userRole) == [all |-> FALSE, userId |-> userId]

\* userRole === UserRole.ADMIN ? {} : { userId }
WhereClause(userId, userRole) ==
  IF userRole = "ADMIN" THEN [all |-> TRUE, userId |-> ""]
                        ELSE [all |-> FALSE, userId |-> userId]

Matches(rec, where) == where.all \/ rec.userId = where.userId

FindMany_NoSkip(where, skip, take) ==
  LET rows == Reverse(SelectSeq(history, LAMBDA rec : Matches(rec, where)))
  IN SubSeq(rows, 1, IF take < Len(rows) THEN take ELSE Len(rows))

\* findMany({where, orderBy: {createdAt: 'desc'}, skip, take})
FindMany(where, skip, take) ==
  LET rows == Reverse(SelectSeq(history, LAMBDA rec : Matches(rec, where)))
  IN SubSeq(rows, skip + 1, IF skip + take < Len(rows) THEN skip + take ELSE Len(rows))

\* count({where})
Count(where) == Len(SelectSeq(history, LAMBDA rec : Matches(rec, where)))

\* Math.ceil(total / limit)
Ceil(total, limit) == (total + limit - 1) \div limit

\* the call up to Promise.all([findMany, count]): both queries are sent
GetWeatherQueries(r, userId, userRole, page, limit) ==
  /\ Free(r)
  /\ proc' = [proc EXCEPT ![r] =
       [Idle EXCEPT !.op = "queries", !.pc = "query", !.userId = userId,
                    !.role = userRole, !.page = page, !.limit = limit]]
  /\ started' = started + 1
  /\ UNCHANGED <<cache, history, cleared>>

\* the datastore answers the findMany; a rejection rejects the Promise.all
QueryFindMany(r) ==
  /\ proc[r].pc \in {"query", "finding"}
  /\ \E dbOk \in BOOLEAN :
       proc' = [proc EXCEPT ![r] =
         IF ~dbOk
         THEN Done([@ EXCEPT !.error = FetchQueriesError])
         ELSE LET skip == (proc[r].page - 1) * proc[r].limit
                  got == [@ EXCEPT !.data = FindMany(WhereClause(proc[r].userId, proc[r].role),
                                                     skip, proc[r].limit)]
              IN IF proc[r].pc = "query"
                 THEN [got EXCEPT !.pc = "counting"]
                 ELSE [Done(got) EXCEPT !.userId = proc[r].userId, !.role = proc[r].role,
                                        !.page = proc[r].page, !.limit = proc[r].limit]]
  /\ UNCHANGED <<cache, started, history, cleared>>

\* the datastore answers the count
QueryCount(r) ==
  /\ proc[r].pc \in {"query", "counting"}
  /\ \E dbOk \in BOOLEAN :
       proc' = [proc EXCEPT ![r] =
         IF ~dbOk
         THEN Done([@ EXCEPT !.error = FetchQueriesError])
         ELSE LET got == [@ EXCEPT !.total = Count(WhereClause(proc[r].userId, proc[r].role))]
              IN IF proc[r].pc = "query"
                 THEN [got EXCEPT !.pc = "finding"]
                 ELSE [Done(got) EXCEPT !.userId = proc[r].userId, !.role = proc[r].role,
                                        !.page = proc[r].page, !.limit = proc[r].limit]]
  /\ UNCHANGED <<cache, started, history, cleared>>

\* the pagination block of the value getWeatherQueries returns
Pagination(p) ==
  [page |-> p.page, limit |-> p.limit, total |-> p.total,
   totalPages |-> Ceil(p.total, p.limit)]

\* getWeatherQueries(userId, userRole): page = 1 and limit = 10 are the default
\* parameter values
GetWeatherQueriesDefault(r, userId, userRole) ==
  GetWeatherQueries(r, userId, userRole, DefaultPage, DefaultLimit)

\* a history table that holds n rows when paging starts: the i-th row created
\* has temperature i, and every `other`-th row is another user's
PagingRecord(i, other) ==
  [city |-> <<"I", "s">>, country |-> "TR", temperature |-> i, humidity |-> 60,
   description |-> "Sunny", icon |-> "01d",
   userId |-> IF other > 0 /\ i % other = 0 THEN "u2" ELSE "u1"]

PagingPages == {1, 2, 3}
PagingLimits == {1, 10, 100}

InitPaging ==
  \E n \in 0..MaxRecords, other \in {0, 3} :
    InitWith(SeedUsers, [i \in 1..n |-> PagingRecord(i, other)], << >>, "none")

\* ----------------------------------------------------------- clearCache
ClearError == <<"Failed to clear cache">>

\* clearCache(city) up to its first redis command: del(cacheKey) when city is
\* truthy, keys('weather:*') otherwise; `given` tells whether city was passed
ClearCacheCall(r, given, city) ==
  /\ Free(r)
  /\ started' = started + 1
  /\ LET begun == [Idle EXCEPT !.op = "clear"]
     IN \E redisOk \in BOOLEAN :
          IF ~redisOk
          THEN /\ proc' = [proc EXCEPT ![r] = Done([begun EXCEPT !.error = ClearError])]
               /\ UNCHANGED <<cache, cleared>>
          ELSE IF given /\ Truthy(city)
          THEN /\ cache' = RedisDel({CacheKey(city)})
               /\ proc' = [proc EXCEPT ![r] = Done([begun EXCEPT !.city = city])]
               /\ cleared' = [cleared EXCEPT ![CacheKey(city)] = "cleared"]
          ELSE /\ proc' = [proc EXCEPT ![r] =
                    IF RedisKeys # {}
                    THEN [begun EXCEPT !.pc = "del", !.keys = RedisKeys]
                    ELSE Done(begun)]
               /\ UNCHANGED <<cache, cleared>>
  /\ UNCHANGED history

ClearCache(r, city) == ClearCacheCall(r, TRUE, city)

ClearCacheNoArg(r) == ClearCacheCall(r, FALSE, EmptyString)

\* `await redisClient.del(keys)` of the no-city path
ClearCacheDel(r) ==
  /\ proc[r].pc = "del"
  /\ \E redisOk \in BOOLEAN :
       IF redisOk
       THEN /\ cache' = RedisDel(proc[r].keys)
            /\ proc' = [proc EXCEPT ![r] = Done(@)]
       ELSE /\ proc' = [proc EXCEPT ![r] = Done([@ EXCEPT !.error = ClearError])]
            /\ UNCHANGED cache
  /\ UNCHANGED <<started, history, cleared>>

\* ---------------------------------------------------------- AuthService
ConflictError == <<"User with this email already exists">>
InvalidLoginError == <<"Invalid email or password">>
InvalidTokenError == <<"Invalid token">>
FetchUsersError == <<"Failed to fetch users">>
UserNotFoundError == <<"User not found">>
DeleteUserError == <<"Failed to delete user">>

\* the message of the error prisma rejects with when a create violates the
\* unique index on users.email, and when the datastore cannot be reached
UniqueConstraintError == <<"Unique constraint failed on the fields: (email)">>
DatabaseError == <<"Cannot reach database server">>

\* what stays of an AuthService call once it has returned or thrown
AuthDone(p) == [Idle EXCEPT !.op = p.op, !.pc = "done", !.email = p.email,
                            !.userId = p.userId, !.error = p.error,
                            !.user = p.user, !.token = p.token, !.data = p.data]

WithEmail(email) == {i \in 1..Len(users) : users[i].email = email}
WithId(id) == {i \in 1..Len(users) : users[i].id = id}

\* prisma.user.findUnique({where: {email}}) and ({where: {id}}): the row or null
FindUniqueByEmail(email) ==
  IF WithEmail(email) = {} THEN NoUser ELSE users[CHOOSE i \in WithEmail(email) : TRUE]

FindUniqueById(id) ==
  IF WithId(id) = {} THEN NoUser ELSE users[CHOOSE i \in WithId(id) : TRUE]

\* select: {id, email, name, role, createdAt, updatedAt}; the timestamps are
\* not kept in the rows of the model
SelectUser_Whole(u) == u

SelectUser(u) == [id |-> u.id, email |-> u.email, name |-> u.name, role |-> u.role]

\* the row prisma.user.create inserts: the hashed password, and
\* role: userData.role || UserRole.USER
NewUser_Plain(userData) ==
  [id |-> UserIdOf(created + 1), email |-> userData.email,
   password |-> userData.password, name |-> userData.name,
   role |-> IF userData.role = Undefined THEN "USER" ELSE userData.role]

NewUser_AlwaysUser(userData) ==
  [id |-> UserIdOf(created + 1), email |-> userData.email,
   password |-> Hash(userData.password), name |-> userData.name,
   role |-> "USER"]

NewUser(userData) ==
  [id |-> UserIdOf(created + 1), email |-> userData.email,
   password |-> Hash(userData.password), name |-> userData.name,
   role |-> IF userData.role = Undefined THEN "USER" ELSE userData.role]

\* createUser up to and including `await prisma.user.findUnique({where: {email}})`
CreateUser(r, userData) ==
  /\ Free(r)
  /\ created + Cardinality({q \in Reqs : proc[q].pc = "create"}) < MaxUsers
  /\ started' = started + 1
  /\ LET begun == [Idle EXCEPT !.op = "register", !.email = userData.email,
                                 !.password = userData.password,
                                 !.name = userData.name, !.role = userData.role]
     IN \E dbOk \in BOOLEAN :
          proc' = [proc EXCEPT ![r] =
            IF ~dbOk THEN AuthDone([begun EXCEPT !.error = DatabaseError])
            ELSE IF FindUniqueByEmail(userData.email) # NoUser
            THEN AuthDone([begun EXCEPT !.error = ConflictError])
            ELSE [begun EXCEPT !.pc = "create"]]
  /\ UNCHANGED <<cache, history, cleared, users, created, tokens>>

\* the unique index on users.email: a create of a second row with the email of
\* an existing row is rejected
UniqueEmail_Unchecked(email) == TRUE

UniqueEmail(email) == WithEmail(email) = {}

\* `await bcrypt.hash(...)` and `await prisma.user.create(...)`: the row is
\* inserted and returned without its password, or the create rejects and the
\* catch block rethrows the error as it is
UserCreate(r) ==
  /\ proc[r].pc = "create"
  /\ LET userData == [email |-> proc[r].email, password |-> proc[r].password,
                      name |-> proc[r].name, role |-> proc[r].role]
     IN \E dbOk \in BOOLEAN :
          IF ~dbOk
          THEN /\ proc' = [proc EXCEPT ![r] = AuthDone([@ EXCEPT !.error = DatabaseError])]
               /\ UNCHANGED <<users, created>>
          ELSE IF ~UniqueEmail(userData.email)
          THEN /\ proc' = [proc EXCEPT ![r] =
                            AuthDone([@ EXCEPT !.error = UniqueConstraintError])]
               /\ UNCHANGED <<users, created>>
          ELSE /\ users' = Append(users, NewUser(userData))
               /\ created' = created + 1
               /\ proc' = [proc EXCEPT ![r] =
                            AuthDone([@ EXCEPT !.user = SelectUser(NewUser(userData))])]
  /\ UNCHANGED <<cache, started, history, cleared, tokens>>

\* loginUser: findUnique by email, bcrypt.compare, generateToken; the only
\* await that touches shared state is the findUnique
LoginUser(r, loginData) ==
  /\ Free(r)
  /\ started' = started + 1
  /\ LET begun == [Idle EXCEPT !.op = "login", !.email = loginData.email]
         user == FindUniqueByEmail(loginData.email)
     IN \E dbOk \in BOOLEAN :
          IF ~dbOk
          THEN /\ proc' = [proc EXCEPT ![r] = AuthDone([begun EXCEPT !.error = DatabaseError])]
               /\ UNCHANGED tokens
          ELSE IF user = NoUser
          THEN /\ proc' = [proc EXCEPT ![r] = AuthDone([begun EXCEPT !.error = InvalidLoginError])]
               /\ UNCHANGED tokens
          ELSE IF ~Compare(loginData.password, user.password)
          THEN /\ proc' = [proc EXCEPT ![r] = AuthDone([begun EXCEPT !.error = InvalidLoginError])]
               /\ UNCHANGED tokens
          ELSE LET token == GenerateToken([userId |-> user.id, email |-> user.email,
                                            role |-> user.role],
                                           Cardinality(DOMAIN tokens))
               IN /\ proc' = [proc EXCEPT ![r] =
                       AuthDone([begun EXCEPT !.user = SelectUser(user), !.token = token])]
                  /\ tokens' = [t \in DOMAIN tokens \cup {token} |->
                                  IF t = token THEN JwtExpiresIn ELSE tokens[t]]
  /\ UNCHANGED <<cache, history, cleared, users, created>>

Verifies_LiveUser(token) ==
  /\ token.form = "jwt"
  /\ token.secret = JwtSecret
  /\ token \in DOMAIN tokens /\ tokens[token] > 0
  /\ UserExists(token.payload.userId)

\* jwt.verify(token, secret): the payload of a well-formed token that was
\* signed with the secret and has not expired; anything else throws
Verifies(token) ==
  /\ token.form = "jwt"
  /\ token.secret = JwtSecret
  /\ token \in DOMAIN tokens /\ tokens[token] > 0

VerifyToken(token) ==
  IF Verifies(token) THEN [ok |-> TRUE, payload |-> token.payload, error |-> NoError]
                     ELSE [ok |-> FALSE, payload |-> NoIdentity, error |-> InvalidTokenError]

\* getAllUsers: findMany, newest first, without the passwords
GetAllUsers(r) ==
  /\ Free(r)
  /\ started' = started + 1
  /\ LET begun == [Idle EXCEPT !.op = "users"]
     IN \E dbOk \in BOOLEAN :
          proc' = [proc EXCEPT ![r] =
            IF dbOk
            THEN AuthDone([begun EXCEPT !.data = Reverse([i \in 1..Len(users) |-> SelectUser(users[i])])])
            ELSE AuthDone([begun EXCEPT !.error = FetchUsersError])]
  /\ UNCHANGED <<cache, history, cleared, users, created, tokens>>

\* getUserById: findUnique by id; 'User not found' for null, and the catch
\* block rethrows
GetUserById(r, userId) ==
  /\ Free(r)
  /\ started' = started + 1
  /\ LET begun == [Idle EXCEPT !.op = "user", !.userId = userId]
     IN \E dbOk \in BOOLEAN :
          proc' = [proc EXCEPT ![r] =
            IF ~dbOk THEN AuthDone([begun EXCEPT !.error = DatabaseError])
            ELSE IF FindUniqueById(userId) = NoUser
            THEN AuthDone([begun EXCEPT !.error = UserNotFoundError])
            ELSE AuthDone([begun EXCEPT !.user = SelectUser(FindUniqueById(userId))])]
  /\ UNCHANGED <<cache, history, cleared, users, created, tokens>>

\* onDelete: Cascade of WeatherQuery.user: the rows of a deleted user go with it
Cascade_None(userId) == history

Cascade(userId) == SelectSeq(history, LAMBDA rec : rec.userId # userId)

\* deleteUser: prisma.user.delete({where: {id}}); a rejection (no such row, or
\* the datastore failing) is rethrown as 'Failed to delete user'
DeleteUser(r, userId) ==
  /\ Free(r)
  /\ started' = started + 1
  /\ LET begun == [Idle EXCEPT !.op = "delete", !.userId = userId]
         user == FindUniqueById(userId)
     IN \E dbOk \in BOOLEAN :
          IF dbOk /\ user # NoUser
          THEN /\ users' = SelectSeq(users, LAMBDA u : u.id # userId)
               /\ history' = Cascade(userId)
               /\ proc' = [proc EXCEPT ![r] =
                    AuthDone([begun EXCEPT !.user = [id |-> user.id, email |-> user.email,
                                                       name |-> user.name]])]
          ELSE /\ proc' = [proc EXCEPT ![r] = AuthDone([begun EXCEPT !.error = DeleteUserError])]
               /\ UNCHANGED <<users, history>>
  /\ UNCHANGED <<cache, cleared, created, tokens>>

\* ------------------------------------------------------- middleware/auth
AccessTokenRequired == <<"Access token required">>
InvalidOrExpiredToken == <<"Invalid or expired token">>
AuthenticationRequired == <<"Authentication required">>
InsufficientPermissions == <<"Insufficient permissions">>

\* what a middleware makes of a request: status 0 when it calls next()
Passed(user) == [status |-> 0, error |-> NoError, user |-> user]
Rejected(status, error, user) == [status |-> status, error |-> error, user |-> user]

\* the token of the header `<scheme> <token>`: its second word
TokenOf(header) == IF header = NoHeader THEN NoToken ELSE header.token

AuthenticateToken_NoVerify(req) ==
  IF TokenOf(req.header) = NoToken
  THEN Rejected(401, AccessTokenRequired, req.user)
  ELSE Passed(TokenOf(req.header).payload)

\* authenticateToken: 401 without a token, 403 when verifyToken throws,
\* otherwise the decoded payload becomes req.user and next() runs
AuthenticateToken(req) ==
  LET token == TokenOf(req.header)
  IN IF token = NoToken
     THEN Rejected(401, AccessTokenRequired, req.user)
     ELSE IF ~VerifyToken(token).ok
     THEN Rejected(403, InvalidOrExpiredToken, req.user)
     ELSE Passed(VerifyToken(token).payload)

RequireRole_AnyRole(roles, req) ==
  IF req.user = NoIdentity
  THEN Rejected(401, AuthenticationRequired, req.user)
  ELSE Passed(req.user)

\* requireRole(roles): 401 without req.user, 403 when req.user.role is not one
\* of roles, otherwise next() runs
RequireRole(roles, req) ==
  IF req.user = NoIdentity
  THEN Rejected(401, AuthenticationRequired, req.user)
  ELSE IF req.user.role \notin roles
  THEN Rejected(403, InsufficientPermissions, req.user)
  ELSE Passed(req.user)

\* requireAdmin = requireRole([ADMIN]), requireUser = requireRole([USER, ADMIN])
AdminOnly == {"ADMIN"}
UserOrAdmin == {"USER", "ADMIN"}

\* ------------------------------------------------- middleware/validation
\* values the schemas reject: not an e-mail address, a password of fewer than
\* 6 characters, a name of fewer than 2 characters, a role that is no UserRole
InvalidEmails == {"not-an-email"}
ShortPasswords == {"short"}
ShortNames == {"A"}
InvalidRoles == {"ROOT"}

\* a page or limit that the query string does not give
NoNumber == -1
MaxLimit == 100

\* the fields a request body, query string or path may carry
NoInput == [email |-> Undefined, password |-> Undefined, name |-> Undefined,
            role |-> Undefined, city |-> EmptyString, page |-> NoNumber,
            limit |-> NoNumber, userId |-> Undefined]

\* error.details[0].message: the message names the first offending field
ValidationError(field) == <<"validation", field>>

\* the first field of the input that the schema rejects; "" when none
Offending(schema, input) ==
  CASE schema = "userCreate" ->
         IF input.email \in InvalidEmails \cup {Undefined} THEN "email"
         ELSE IF input.password \in ShortPasswords \cup {Undefined} THEN "password"
         ELSE IF input.name \in ShortNames \cup {Undefined} THEN "name"
         ELSE IF input.role \in InvalidRoles THEN "role"
         ELSE ""
    [] schema = "userLogin" ->
         IF input.email \in InvalidEmails \cup {Undefined} THEN "email"
         ELSE IF input.password = Undefined THEN "password"
         ELSE ""
    [] schema = "weatherQuery" ->
         IF Len(input.city) < 1 THEN "city" ELSE ""
    [] schema = "pagination" ->
         IF input.page # NoNumber /\ input.page < 1 THEN "page"
         ELSE IF input.limit # NoNumber /\ (input.limit < 1 \/ input.limit > MaxLimit) THEN "limit"
         ELSE ""

\* the value of schema.validate: the input with the defaults filled in
Validated(schema, input) ==
  IF schema = "pagination"
  THEN [input EXCEPT !.page = IF @ = NoNumber THEN DefaultPage ELSE @,
                     !.limit = IF @ = NoNumber THEN DefaultLimit ELSE @]
  ELSE input

\* validateRequest(schema) and validateQuery(schema): 400 with the message of
\* the first error, otherwise the validated value replaces the input
Validate(schema, req) ==
  IF Offending(schema, req.input) # ""
  THEN [status |-> 400, error |-> ValidationError(Offending(schema, req.input)),
        input |-> req.input]
  ELSE [status |-> 0, error |-> NoError, input |-> Validated(schema, req.input)]

\* ---------------------------------------------------------------- routes
Register == "POST /api/auth/register"
Login == "POST /api/auth/login"
ListUsers == "GET /api/auth/users"
GetUser == "GET /api/auth/users/:userId"
RemoveUser == "DELETE /api/auth/users/:userId"
Current == "POST /api/weather/current"
History == "GET /api/weather/history"
ClearCacheRoute == "DELETE /api/weather/cache"

AuthMw == [mw |-> "authenticateToken", schema |-> "", roles |-> {}]
ValidateMw(schema) == [mw |-> "validate", schema |-> schema, roles |-> {}]
RoleMw(roles) == [mw |-> "requireRole", schema |-> "", roles |-> roles]

Chain_OpenCache(route) ==
  CASE route = Register -> << ValidateMw("userCreate") >>
    [] route = Login -> << ValidateMw("userLogin") >>
    [] route = ListUsers -> << AuthMw, RoleMw(AdminOnly) >>
    [] route = GetUser -> << AuthMw, RoleMw(AdminOnly) >>
    [] route = RemoveUser -> << AuthMw, RoleMw(AdminOnly) >>
    [] route = Current -> << AuthMw, ValidateMw("weatherQuery"), RoleMw(UserOrAdmin) >>
    [] route = History -> << AuthMw, ValidateMw("pagination"), RoleMw(UserOrAdmin) >>
    [] route = ClearCacheRoute -> << AuthMw, RoleMw(UserOrAdmin) >>

Chain_ValidateFirst(route) ==
  CASE route = Register -> << ValidateMw("userCreate") >>
    [] route = Login -> << ValidateMw("userLogin") >>
    [] route = Current -> << ValidateMw("weatherQuery"), AuthMw, RoleMw(UserOrAdmin) >>
    [] route = History -> << ValidateMw("pagination"), AuthMw, RoleMw(UserOrAdmin) >>
    [] OTHER -> << AuthMw, RoleMw(AdminOnly) >>

\* the middleware of a route, in the order the router runs them
Chain(route) ==
  CASE route = Register -> << ValidateMw("userCreate") >>
    [] route = Login -> << ValidateMw("userLogin") >>
    [] route = ListUsers -> << AuthMw, RoleMw(AdminOnly) >>
    [] route = GetUser -> << AuthMw, RoleMw(AdminOnly) >>
    [] route = RemoveUser -> << AuthMw, RoleMw(AdminOnly) >>
    [] route = Current -> << AuthMw, ValidateMw("weatherQuery"), RoleMw(UserOrAdmin) >>
    [] route = History -> << AuthMw, ValidateMw("pagination"), RoleMw(UserOrAdmin) >>
    [] route = ClearCacheRoute -> << AuthMw, RoleMw(AdminOnly) >>

\* the chain runs until a middleware answers; status 0 when the handler is
\* reached
RECURSIVE RunChain(_, _)
RunChain(chain, req) ==
  IF chain = << >>
  THEN [status |-> 0, error |-> NoError, user |-> req.user, input |-> req.input]
  ELSE LET m == Head(chain)
       IN IF m.mw = "validate"
          THEN LET out == Validate(m.schema, req)
               IN IF out.status # 0
                  THEN [status |-> out.status, error |-> out.error,
                        user |-> req.user, input |-> req.input]
                  ELSE RunChain(Tail(chain), [req EXCEPT !.input = out.input])
          ELSE LET out == IF m.mw = "authenticateToken"
                          THEN AuthenticateToken(req)
                          ELSE RequireRole(m.roles, req)
               IN IF out.status # 0
                  THEN [status |-> out.status, error |-> out.error,
                        user |-> req.user, input |-> req.input]
                  ELSE RunChain(Tail(chain), [req EXCEPT !.user = out.user])

\* parseInt(value) || fallback
ParseIntOr(value, fallback) == IF value = NoNumber \/ value = 0 THEN fallback ELSE value

\* the controller of the route calls its service
Handler(r, route, user, input) ==
  CASE route = Register ->
         CreateUser(r, [email |-> input.email, password |-> input.password,
                        name |-> input.name, role |-> input.role])
    [] route = Login ->
         LoginUser(r, [email |-> input.email, password |-> input.password])
    [] route = ListUsers -> GetAllUsers(r)
    [] route = GetUser -> GetUserById(r, input.userId)
    [] route = RemoveUser -> DeleteUser(r, input.userId)
    [] route = Current ->
         /\ GetWeatherData(r, input.city, user.userId)
         /\ UNCHANGED <<users, created, tokens>>
    [] route = History ->
         /\ GetWeatherQueries(r, user.userId, user.role,
                              ParseIntOr(input.page, DefaultPage),
                              ParseIntOr(input.limit, DefaultLimit))
         /\ UNCHANGED <<users, created, tokens>>
    [] route = ClearCacheRoute ->
         /\ ClearCacheCall(r, Truthy(input.city), input.city)
         /\ UNCHANGED <<users, created, tokens>>

\* a request arrives: its middleware chain runs, and either a middleware
\* answers it or the controller starts the service call
Http(r, route, header, input) ==
  LET out == RunChain(Chain(route), [header |-> header, input |-> input, user |-> NoIdentity])
  IN IF out.status # 0
     THEN /\ Free(r)
          /\ started' = started + 1
          /\ proc' = [proc EXCEPT ![r] = Idle]
          /\ http' = [http EXCEPT ![r] = [route |-> route, header |-> header,
                                           status |-> out.status,
                                           error |-> out.error, user |-> out.user]]
          /\ UNCHANGED <<cache, history, cleared, users, created, tokens>>
     ELSE /\ http' = [http EXCEPT ![r] = [route |-> route, header |-> header,
                                           status |-> 0,
                                           error |-> NoError, user |-> out.user]]
          /\ Handler(r, route, out.user, out.input)

\* res.status(...) of the controllers: on success and in the catch block
SuccessStatus(route) == IF route = Register THEN 201 ELSE 200

FailureStatus_Uniform(route) == 500

FailureStatus(route) ==
  CASE route = Register -> 400
    [] route = Login -> 401
    [] route = ListUsers -> 500
    [] route = GetUser -> 404
    [] route = RemoveUser -> 500
    [] route = Current -> 400
    [] route = History -> 500
    [] route = ClearCacheRoute -> 500

\* the response of request r: status 0 while there is none
Response(r) ==
  IF http[r].status # 0
  THEN [status |-> http[r].status, error |-> http[r].error]
  ELSE IF http[r].route # "none" /\ proc[r].pc = "done"
  THEN IF proc[r].error = NoError
       THEN [status |-> SuccessStatus(http[r].route), error |-> NoError]
       ELSE [status |-> FailureStatus(http[r].route), error |-> proc[r].error]
  ELSE [status |-> 0, error |-> NoError]

ProtectedRoutes == {ListUsers, GetUser, RemoveUser, Current, History, ClearCacheRoute}
AdminRoutes == {ListUsers, GetUser, RemoveUser, ClearCacheRoute}

\* the Authorization headers a client may send
Headers ==
  {NoHeader}
  \cup {[scheme |-> "Bearer", token |-> t] :
          t \in DOMAIN tokens \cup {ForgedToken, GarbageToken, NoToken}}
  \cup {[scheme |-> "InvalidFormat", token |-> GarbageToken]}

\* bodies, query strings and path parameters sent to the protected routes; the
\* lookups sent have an empty city, which the validation rejects
GateInputs(route) ==
  CASE route = Current -> {[NoInput EXCEPT !.city = EmptyString]}
    [] route = History -> {[NoInput EXCEPT !.page = n] : n \in {NoNumber, 0}}
    [] route = ClearCacheRoute -> {[NoInput EXCEPT !.city = c] : c \in {<<"I", "s">>, EmptyString}}
    [] route \in {GetUser, RemoveUser} -> {[NoInput EXCEPT !.userId = UserIdOf(1)]}
    [] OTHER -> {NoInput}

\* requireRole(roles) applied to a request on its own, with or without an
\* identity attached
RoleCheck(r, roles, user) ==
  LET out == RequireRole(roles, [header |-> NoHeader, input |-> NoInput, user |-> user])
  IN /\ Free(r)
     /\ started' = started + 1
     /\ proc' = [proc EXCEPT ![r] = Idle]
     /\ http' = [http EXCEPT ![r] = [route |-> "requireRole", header |-> NoHeader,
                                      status |-> out.status,
                                      error |-> out.error, user |-> out.user]]
     /\ UNCHANGED <<cache, history, cleared, users, created, tokens, client, nodeEnv>>

\* the clock advances by TokenStep hours: the issued tokens come closer to
\* their expiry
TokenTick ==
  /\ \E t \in DOMAIN tokens : tokens[t] > 0
  /\ tokens' = [t \in DOMAIN tokens |->
                  IF tokens[t] > TokenStep THEN tokens[t] - TokenStep ELSE 0]
  /\ UNCHANGED <<cache, started, history, proc, cleared, users, created, http, client, nodeEnv>>

\* ------------------------------------------------------------- time
\* the clock advances by TickStep seconds; redis drops the entries whose TTL
\* has run out
Tick ==
  /\ DOMAIN cache # {}
  /\ cache' = [k \in {x \in DOMAIN cache : cache[x].ttl > TickStep} |->
                 [cache[k] EXCEPT !.ttl = @ - TickStep]]
  /\ UNCHANGED <<started, history, proc, cleared>>

\* the steps of weather lookups for cities of C made by users of U
Lookup(C, U) ==
  \/ \E r \in Reqs, city \in C, userId \in U : GetWeatherData(r, city, userId)
  \/ \E r \in Reqs : ProviderRespond(r)
  \/ \E r \in Reqs : CacheSet(r)
  \/ \E r \in Reqs : SaveWeatherQuery(r)

\* lookups of one city in two casings by all users while the cache entries age
Next ==
  /\ \/ Lookup({<<"I", "s">>, <<"i", "s">>}, UserIds)
     \/ Tick
  /\ UNCHANGED accountVars

Spec == Init /\ [][Next]_vars

\* lookups and cache clearing
NextClear ==
  /\ \/ Lookup(Cities, {"u1"})
     \/ \E r \in Reqs, city \in Cities \cup {EmptyString} : ClearCache(r, city)
     \/ \E r \in Reqs : ClearCacheNoArg(r)
     \/ \E r \in Reqs : ClearCacheDel(r)
     \/ Tick
  /\ UNCHANGED accountVars

SpecClear == Init /\ [][NextClear]_vars

\* lookups and history reads
NextQueries ==
  /\ \/ Lookup({<<"I", "s">>}, UserIds)
     \/ \E r \in Reqs, userId \in UserIds, userRole \in UserRole, page \in Pages, limit \in Limits :
          GetWeatherQueries(r, userId, userRole, page, limit)
     \/ \E r \in Reqs : QueryFindMany(r)
     \/ \E r \in Reqs : QueryCount(r)
  /\ UNCHANGED accountVars

SpecQueries == Init /\ [][NextQueries]_vars

\* one client pages through a table that holds rows already, one read after
\* the other
NextPaging ==
  /\ \/ /\ \A q \in Reqs : Vacant(q)
        /\ \E r \in Reqs, userRole \in UserRole, page \in PagingPages, limit \in PagingLimits :
             GetWeatherQueries(r, "u1", userRole, page, limit)
     \/ /\ \A q \in Reqs : Vacant(q)
        /\ \E r \in Reqs, userRole \in UserRole : GetWeatherQueriesDefault(r, "u1", userRole)
     \/ \E r \in Reqs : QueryFindMany(r)
     \/ \E r \in Reqs : QueryCount(r)
  /\ UNCHANGED accountVars

SpecPaging == InitPaging /\ [][NextPaging]_vars

\* requests to the protected routes with every kind of Authorization header
NextGate ==
  \/ /\ \E r \in Reqs, route \in ProtectedRoutes :
          \E header \in Headers, input \in GateInputs(route) : Http(r, route, header, input)
     /\ UNCHANGED <<client, nodeEnv>>
  \/ \E r \in Reqs, roles \in {AdminOnly, UserOrAdmin} :
       \E user \in {NoIdentity, UserToken.payload, AdminToken.payload} : RoleCheck(r, roles, user)
  \/ (\E r \in Reqs : QueryFindMany(r)) /\ UNCHANGED accountVars
  \/ (\E r \in Reqs : QueryCount(r)) /\ UNCHANGED accountVars
  \/ TokenTick

SpecGate == InitGate /\ [][NextGate]_vars

\* bodies sent to POST /register and POST /login
RegisterInputs ==
  {[NoInput EXCEPT !.email = e, !.password = "secret1", !.name = "Al", !.role = role] :
     e \in Emails, role \in {Undefined, "ADMIN"}}

LoginInputs ==
  {[NoInput EXCEPT !.email = e, !.password = pw] : e \in Emails, pw \in Passwords}

\* slot r serves a call that no route has started
Direct(r) == http' = [http EXCEPT ![r] = NoHttp]

\* accounts come and go while lookups are made in their name: registrations and
\* logins arrive over their routes, deleteUser and the lookups are called
\* directly
NextAccounts ==
  \/ /\ \E r \in Reqs, input \in RegisterInputs : Http(r, Register, NoHeader, input)
     /\ UNCHANGED <<client, nodeEnv>>
  \/ /\ \E r \in Reqs : UserCreate(r)
     /\ UNCHANGED <<http, client, nodeEnv>>
  \/ /\ \E r \in Reqs, input \in LoginInputs : Http(r, Login, NoHeader, input)
     /\ UNCHANGED <<client, nodeEnv>>
  \/ /\ \E r \in Reqs, userId \in UserIds : DeleteUser(r, userId) /\ Direct(r)
     /\ UNCHANGED <<client, nodeEnv>>
  \/ /\ \E r \in Reqs, userId \in UserIds :
          GetWeatherData(r, <<"I", "s">>, userId) /\ Direct(r)
     /\ UNCHANGED <<users, created, tokens, client, nodeEnv>>
  \/ (\E r \in Reqs : ProviderRespond(r)) /\ UNCHANGED accountVars
  \/ (\E r \in Reqs : CacheSet(r)) /\ UNCHANGED accountVars
  \/ (\E r \in Reqs : SaveWeatherQuery(r)) /\ UNCHANGED accountVars

\* the empty store, or the two accounts and one history row of the ADMIN
InitAccounts ==
  \/ InitEmpty
  \/ InitWith(SeedUsers, << PagingRecord(1, 1) >>, << >>, "none")

SpecAccounts == InitAccounts /\ [][NextAccounts]_vars

\* the client that registers, logs in, looks a city up and reads its history,
\* each request sent once the one before it has been answered with success
JourneyRegistrations ==
  {[NoInput EXCEPT !.email = "a@x", !.password = "secret1", !.name = "Al", !.role = role] :
     role \in {Undefined, "ADMIN"}}
JourneyLogin == [NoInput EXCEPT !.email = "a@x", !.password = "secret1"]
JourneyCity == [NoInput EXCEPT !.city = <<"I", "s">>]

\* the last request, to `route`, has been answered with `status`
Answered(route, status) ==
  \E r \in Reqs : http[r].route = route /\ Response(r).status = status

Bearer(token) == [scheme |-> "Bearer", token |-> token]

InitJourney == InitWith(<< >>, << >>, << >>, "start")

NextJourney ==
  \/ /\ client = "start"
     /\ \E r \in Reqs, input \in JourneyRegistrations : Http(r, Register, NoHeader, input)
     /\ client' = "register" /\ UNCHANGED nodeEnv
  \/ /\ client = "register" /\ Answered(Register, 201)
     /\ \E r \in Reqs : Http(r, Login, NoHeader, JourneyLogin)
     /\ client' = "login" /\ UNCHANGED nodeEnv
  \/ /\ client = "login" /\ Answered(Login, 200)
     /\ \E r \in Reqs, t \in DOMAIN tokens : Http(r, Current, Bearer(t), JourneyCity)
     /\ client' = "lookup" /\ UNCHANGED nodeEnv
  \/ /\ client = "lookup" /\ Answered(Current, 200)
     /\ \E r \in Reqs, t \in DOMAIN tokens : Http(r, History, Bearer(t), NoInput)
     /\ client' = "history" /\ UNCHANGED nodeEnv
  \/ (\E r \in Reqs : UserCreate(r)) /\ UNCHANGED <<http, client, nodeEnv>>
  \/ (\E r \in Reqs : ProviderRespond(r)) /\ UNCHANGED accountVars
  \/ (\E r \in Reqs : CacheSet(r)) /\ UNCHANGED accountVars
  \/ (\E r \in Reqs : SaveWeatherQuery(r)) /\ UNCHANGED accountVars
  \/ (\E r \in Reqs : QueryFindMany(r)) /\ UNCHANGED accountVars
  \/ (\E r \in Reqs : QueryCount(r)) /\ UNCHANGED accountVars
  \/ TokenTick

SpecJourney == InitJourney /\ [][NextJourney]_vars

\* ------------------------------------------------- global error handler
NodeEnvs == {"production", "development"}

ServerError == <<"Server error">>

\* the message of the SyntaxError that express.json() passes to next() for a
\* body that is no JSON
MalformedJsonError == <<"Unexpected token in JSON">>

ErrorHandler_Verbatim(error) == [status |-> 500, error |-> error]

\* app.use((error, req, res, next) => ...): status 500 and, in production,
\* 'Server error' in place of error.message
ErrorHandler(error) ==
  [status |-> 500, error |-> IF nodeEnv = "production" THEN ServerError ELSE error]

\* the routes that take a JSON body
BodyRoutes == {Register, Login, Current}

\* a request whose body express.json() cannot parse: the parser runs before
\* the routers, so no middleware of the route and no controller sees it
MalformedBody(r, route) ==
  LET out == ErrorHandler(MalformedJsonError)
  IN /\ Free(r)
     /\ started' = started + 1
     /\ proc' = [proc EXCEPT ![r] = Idle]
     /\ http' = [http EXCEPT ![r] = [route |-> route, header |-> NoHeader,
                                      status |-> out.status,
                                      error |-> out.error, user |-> NoIdentity]]
     /\ UNCHANGED <<cache, history, cleared, users, created, tokens, client, nodeEnv>>

\* what the ADMIN sends to the protected routes: a known and an unknown user
\* id, a city and the defaults of the other routes
ErrorInputs(route) ==
  CASE route = Current -> {[NoInput EXCEPT !.city = <<"I", "s">>]}
    [] route = ClearCacheRoute -> {[NoInput EXCEPT !.city = <<"I", "s">>]}
    [] route \in {GetUser, RemoveUser} ->
         {[NoInput EXCEPT !.userId = id] : id \in {UserIdOf(1), UserIdOf(4)}}
    [] OTHER -> {NoInput}

\* either mode of the process, the two accounts and the token of the ADMIN
InitErrors ==
  \E env \in NodeEnvs :
    InitEnv(SeedUsers, << >>, [t \in {AdminToken} |-> JwtExpiresIn], "none", env)

NextErrors ==
  \/ /\ \E r \in Reqs, route \in ProtectedRoutes :
          \E input \in ErrorInputs(route) : Http(r, route, Bearer(AdminToken), input)
     /\ UNCHANGED <<client, nodeEnv>>
  \/ /\ \E r \in Reqs, input \in LoginInputs : Http(r, Login, NoHeader, input)
     /\ UNCHANGED <<client, nodeEnv>>
  \/ /\ \E r \in Reqs, input \in RegisterInputs : Http(r, Register, NoHeader, input)
     /\ UNCHANGED <<client, nodeEnv>>
  \/ (\E r \in Reqs : UserCreate(r)) /\ UNCHANGED <<http, client, nodeEnv>>
  \/ \E r \in Reqs, route \in BodyRoutes : MalformedBody(r, route)
  \/ (\E r \in Reqs : ProviderRespond(r)) /\ UNCHANGED accountVars
  \/ (\E r \in Reqs : CacheSet(r)) /\ UNCHANGED accountVars
  \/ (\E r \in Reqs : SaveWeatherQuery(r)) /\ UNCHANGED accountVars
  \/ (\E r \in Reqs : QueryFindMany(r)) /\ UNCHANGED accountVars
  \/ (\E r \in Reqs : QueryCount(r)) /\ UNCHANGED accountVars

SpecErrors == InitErrors /\ [][NextErrors]_vars

\* ------------------------------------------------- roles by registration
\* callers without a token register, with and without a role, and log in; the
\* tokens they are given are sent to the ADMIN-only list of users
NextRoles ==
  \/ /\ \E r \in Reqs, input \in RegisterInputs : Http(r, Register, NoHeader, input)
     /\ UNCHANGED <<client, nodeEnv>>
  \/ (\E r \in Reqs : UserCreate(r)) /\ UNCHANGED <<http, client, nodeEnv>>
  \/ /\ \E r \in Reqs, input \in LoginInputs : Http(r, Login, NoHeader, input)
     /\ UNCHANGED <<client, nodeEnv>>
  \/ /\ \E r \in Reqs, t \in DOMAIN tokens : Http(r, ListUsers, Bearer(t), NoInput)
     /\ UNCHANGED <<client, nodeEnv>>

SpecRoles == InitEmpty /\ [][NextRoles]_vars

\* --------------------------------------------- tokens of deleted users
\* the ADMIN deletes the USER account while the USER, holding a token, looks a
\* city up and reads its history; time passes
NextRevoke ==
  \/ /\ \E r \in Reqs :
          Http(r, RemoveUser, Bearer(AdminToken), [NoInput EXCEPT !.userId = UserIdOf(1)])
     /\ UNCHANGED <<client, nodeEnv>>
  \/ /\ \E r \in Reqs : Http(r, Current, Bearer(UserToken), JourneyCity)
     /\ UNCHANGED <<client, nodeEnv>>
  \/ /\ \E r \in Reqs : Http(r, History, Bearer(UserToken), NoInput)
     /\ UNCHANGED <<client, nodeEnv>>
  \/ (\E r \in Reqs : ProviderRespond(r)) /\ UNCHANGED accountVars
  \/ (\E r \in Reqs : CacheSet(r)) /\ UNCHANGED accountVars
  \/ (\E r \in Reqs : SaveWeatherQuery(r)) /\ UNCHANGED accountVars
  \/ (\E r \in Reqs : QueryFindMany(r)) /\ UNCHANGED accountVars
  \/ (\E r \in Reqs : QueryCount(r)) /\ UNCHANGED accountVars
  \/ TokenTick

SpecRevoke == InitGate /\ [][NextRevoke]_vars

\* ------------------------------------------------- validated requests
ValidatedRoutes == {Register, Login, Current, History}

\* bodies and query strings for the routes that validate them: one that the
\* schema accepts and one for each way it rejects
ValidationInputs(route) ==
  CASE route = Register ->
         LET valid == [NoInput EXCEPT !.email = "b@x", !.password = "secret2", !.name = "Al"]
         IN {valid, [valid EXCEPT !.email = "not-an-email"], [valid EXCEPT !.password = "short"],
             [valid EXCEPT !.name = "A"], [valid EXCEPT !.role = "ROOT"]}
    [] route = Login ->
         LET valid == [NoInput EXCEPT !.email = "a@x", !.password = "secret1"]
         IN {valid, [valid EXCEPT !.email = "not-an-email"], [valid EXCEPT !.password = Undefined]}
    [] route = Current -> {[NoInput EXCEPT !.city = c] : c \in {<<"I", "s">>, EmptyString}}
    [] route = History ->
         {NoInput, [NoInput EXCEPT !.page = 0], [NoInput EXCEPT !.limit = MaxLimit + 1]}

\* no header, a token that verifies and one that does not; the public routes
\* are sent none
ValidationHeaders(route) ==
  IF route \in ProtectedRoutes
  THEN {NoHeader, Bearer(UserToken), Bearer(GarbageToken)}
  ELSE {NoHeader}

\* one account, holding a token
InitValidation ==
  InitWith(<< SeedUsers[1] >>, << >>, [t \in {UserToken} |-> JwtExpiresIn], "none")

NextValidation ==
  \/ /\ \E r \in Reqs, route \in ValidatedRoutes :
          \E header \in ValidationHeaders(route), input \in ValidationInputs(route) :
            Http(r, route, header, input)
     /\ UNCHANGED <<client, nodeEnv>>
  \/ (\E r \in Reqs : UserCreate(r)) /\ UNCHANGED <<http, client, nodeEnv>>
  \/ (\E r \in Reqs : ProviderRespond(r)) /\ UNCHANGED accountVars
  \/ (\E r \in Reqs : CacheSet(r)) /\ UNCHANGED accountVars
  \/ (\E r \in Reqs : SaveWeatherQuery(r)) /\ UNCHANGED accountVars
  \/ (\E r \in Reqs : QueryFindMany(r)) /\ UNCHANGED accountVars
  \/ (\E r \in Reqs : QueryCount(r)) /\ UNCHANGED accountVars

SpecValidation == InitValidation /\ [][NextValidation]_vars

\* ------------------------------------------------------ pending lookups
\* lookups of one city by one user
NextPending == Lookup({<<"I", "s">>}, {"u1"}) /\ UNCHANGED accountVars

\* redis and the datastore answer, and the event loop runs the continuation of
\* every await that has been answered; the provider is a remote host that
\* need not answer, and the axios.get is given no timeout that would end the
\* wait for it
ServiceFairness ==
  \A r \in Reqs :
    /\ WF_vars(CacheSet(r) /\ UNCHANGED accountVars)
    /\ WF_vars(SaveWeatherQuery(r) /\ UNCHANGED accountVars)

SpecPending == Init /\ [][NextPending]_vars /\ ServiceFairness

\* ======================================================================
\* Properties
\* ======================================================================

Prefix == <<"weather:">>

\* a call starts in this step and request r serves it
Starts(r) == Free(r) /\ started' = started + 1

\* request r starts a lookup in this step and its cache read is answered
LookupReads(r) ==
  /\ Starts(r)
  /\ proc'[r].op = "weather"
  /\ proc'[r].pc \in {"save", "fetch"}

\* the lookup of request r returns or throws in this step
LookupEnds(r) ==
  /\ proc[r].op = "weather"
  /\ proc[r].pc \in {"fetch", "setEx", "save"}
  /\ proc'[r].pc = "done"

\* the history record a reading and a user id make: absent fields are null
RecordOf(reading, userId) ==
  [city |-> reading.city,
   country |-> IF "country" \in DOMAIN reading THEN reading.country ELSE Null,
   temperature |-> reading.temperature,
   humidity |-> reading.humidity,
   description |-> IF "description" \in DOMAIN reading THEN reading.description ELSE Null,
   icon |-> IF "icon" \in DOMAIN reading THEN reading.icon ELSE Null,
   userId |-> userId]

\* C1: a lookup that finds a live entry under weather:<lowercase(city)> makes no
\* provider call and returns exactly the reading parsed from that entry; when
\* the datastore create succeeds the call appends exactly one history record,
\* carrying the cached reading's fields and the caller's userId, and when the
\* create fails it appends none.
C1_CacheHit ==
  [][\A r \in Reqs :
       /\ (LookupReads(r) /\ Prefix \o toLowerCase(proc'[r].city) \in DOMAIN cache)
            => /\ proc'[r].hit
               /\ proc'[r].pc = "save"
               /\ proc'[r].providerCalls = 0
               /\ proc'[r].cachedData = cache[Prefix \o toLowerCase(proc'[r].city)].value
       /\ (LookupEnds(r) /\ proc[r].hit)
            => /\ proc'[r].error = NoError
               /\ proc'[r].providerCalls = 0
               /\ proc'[r].result = proc[r].cachedData
               /\ cache' = cache
               /\ history' = IF proc'[r].saved
                             THEN Append(history, RecordOf(proc[r].cachedData, proc[r].userId))
                             ELSE history
  ]_vars

C1_Witness ==
  \E r \in Reqs :
    /\ proc[r].op = "weather" /\ proc[r].pc = "done"
    /\ proc[r].hit /\ proc[r].saved
    /\ proc[r].result # NoData
    /\ Len(history) >= 1
    /\ history[Len(history)].userId = "u2"

\* the reading the code is to build from a provider body
ReadingOf(d) ==
  [city |-> d.name, country |-> d.sys.country, temperature |-> d.main.temp,
   humidity |-> d.main.humidity,
   description |-> IF d.weather = << >> THEN "" ELSE Head(d.weather).description,
   icon |-> IF d.weather = << >> THEN "" ELSE Head(d.weather).icon]

\* C2: a lookup that misses asks the provider once, with the city string as
\* given; when the provider answers with a body the reading is built from the
\* body's fields, stored under weather:<lowercase(city)> with a TTL of 300
\* seconds, and returned (the provider's name for the city, not the caller's
\* casing); a successful create appends exactly one history record for userId.
C2_CacheMiss ==
  [][\A r \in Reqs :
       /\ (LookupReads(r) /\ ~proc'[r].hit)
            => proc'[r].pc = "fetch" /\ proc'[r].q = proc'[r].city
       /\ (proc[r].pc = "fetch" /\ proc'[r].pc = "setEx")
            => /\ proc'[r].providerCalls = 1
               /\ \E d \in OpenWeatherResponses : proc'[r].weatherData = ReadingOf(d)
       /\ (proc[r].pc = "setEx" /\ proc'[r].pc = "save")
            => LET k == Prefix \o toLowerCase(proc[r].city)
               IN /\ k \in DOMAIN cache'
                  /\ cache'[k].ttl = 300
                  /\ cache'[k].value = [f \in {"city", "temperature", "humidity",
                                               "description", "icon"}
                                          \cup (IF proc[r].weatherData.country = Undefined
                                                THEN {} ELSE {"country"})
                                        |-> proc[r].weatherData[f]]
                  /\ \A x \in DOMAIN cache' \ {k} : x \in DOMAIN cache /\ cache'[x] = cache[x]
       /\ (LookupEnds(r) /\ proc[r].pc = "save" /\ ~proc[r].hit)
            => /\ proc'[r].error = NoError
               /\ proc'[r].providerCalls = 1
               /\ proc'[r].result = proc[r].weatherData
               /\ \E d \in OpenWeatherResponses : proc'[r].result.city = d.name
               /\ history' = IF proc'[r].saved
                             THEN Append(history,
                                    [city |-> proc[r].weatherData.city,
                                     country |-> IF proc[r].weatherData.country = Undefined
                                                 THEN Null ELSE proc[r].weatherData.country,
                                     temperature |-> proc[r].weatherData.temperature,
                                     humidity |-> proc[r].weatherData.humidity,
                                     description |-> proc[r].weatherData.description,
                                     icon |-> proc[r].weatherData.icon,
                                     userId |-> proc[r].userId])
                             ELSE history
  ]_vars

C2_Witness ==
  \E r \in Reqs :
    /\ proc[r].op = "weather" /\ proc[r].pc = "done"
    /\ ~proc[r].hit /\ proc[r].saved /\ proc[r].providerCalls = 1
    /\ proc[r].result # NoData
    /\ Prefix \o <<"i", "s">> \in DOMAIN cache
    /\ cache[Prefix \o <<"i", "s">>].writer = <<"i", "s">>
    /\ proc[r].result.city = <<"I", "s">>
    /\ Len(history) = 1

\* C3: the key of a lookup and of clearCache(city) is 'weather:' followed by
\* the lower-cased city: a lookup is a cache hit exactly when a live entry was
\* written by a lookup whose city differs from its own at most in letter case,
\* and it is served from that entry; a lookup writes only that key, and
\* clearCache(city) removes exactly the entry of that city in any casing.
C3_CaseInsensitiveKey ==
  [][\A r \in Reqs :
       /\ LookupReads(r)
            => LET c == proc'[r].city
                   same == {k \in DOMAIN cache :
                              toLowerCase(cache[k].writer) = toLowerCase(c)}
               IN /\ proc'[r].cacheKey = Prefix \o toLowerCase(c)
                  /\ proc'[r].hit <=> same # {}
                  /\ proc'[r].hit => \A k \in same : proc'[r].cachedData = cache[k].value
       /\ (proc[r].pc = "setEx" /\ proc'[r].pc = "save")
            => /\ Prefix \o toLowerCase(proc[r].city) \in DOMAIN cache'
               /\ DOMAIN cache' \ DOMAIN cache \subseteq {Prefix \o toLowerCase(proc[r].city)}
       /\ (/\ Starts(r)
           /\ proc'[r].op = "clear" /\ proc'[r].pc = "done"
           /\ proc'[r].error = NoError /\ proc'[r].city # EmptyString)
            => /\ DOMAIN cache' = DOMAIN cache \ {Prefix \o toLowerCase(proc'[r].city)}
               /\ \A k \in DOMAIN cache' :
                    /\ cache'[k] = cache[k]
                    /\ toLowerCase(cache'[k].writer) # toLowerCase(proc'[r].city)
  ]_vars

C3_Witness ==
  \E r \in Reqs :
    /\ proc[r].op = "weather" /\ proc[r].pc = "save" /\ proc[r].hit
    /\ proc[r].cacheKey \in DOMAIN cache
    /\ cache[proc[r].cacheKey].writer # proc[r].city
    /\ proc[r].cachedData = cache[proc[r].cacheKey].value

\* C4: when the provider answers a lookup that missed with HTTP 404, the lookup
\* fails with the message "City '<city>' not found" for the city as requested,
\* returns no reading, and neither the cache nor the history is changed by any
\* step of that call.
C4_NotFound ==
  [][\A r \in Reqs :
       /\ (LookupReads(r) /\ ~proc'[r].hit) => cache' = cache /\ history' = history
       /\ (LookupEnds(r) /\ proc'[r].status = 404)
            => /\ proc[r].pc = "fetch"
               /\ proc'[r].error = <<"City '", proc[r].city, "' not found">>
               /\ proc'[r].result = NoData
               /\ ~proc'[r].saved
               /\ cache' = cache
               /\ history' = history
  ]_vars

C4_Witness ==
  \E r \in Reqs :
    /\ proc[r].op = "weather" /\ proc[r].pc = "done" /\ proc[r].status = 404
    /\ Len(proc[r].error) = 3 /\ proc[r].error[2] \in Cities
    /\ Len(history) >= 1

\* C5: when the provider call of a lookup that missed fails otherwise (an HTTP
\* status other than 404, or no response at all), the lookup fails with
\* 'Failed to fetch weather data', returns no reading, and neither the cache
\* nor the history is changed by any step of that call.
C5_ProviderFailure ==
  [][\A r \in Reqs :
       /\ (LookupReads(r) /\ ~proc'[r].hit) => cache' = cache /\ history' = history
       /\ (LookupEnds(r) /\ proc[r].pc = "fetch" /\ proc'[r].status # 404)
            => /\ proc'[r].error = <<"Failed to fetch weather data">>
               /\ proc'[r].result = NoData
               /\ ~proc'[r].saved
               /\ cache' = cache
               /\ history' = history
  ]_vars

C5_Witness ==
  /\ \E r \in Reqs :
       /\ proc[r].op = "weather" /\ proc[r].pc = "done" /\ proc[r].status = 500
       /\ proc[r].error = FetchError
  /\ \E r \in Reqs :
       /\ proc[r].op = "weather" /\ proc[r].pc = "done" /\ proc[r].status = 0
       /\ proc[r].error = FetchError
  /\ Len(history) >= 1

\* C6: a failing history create never fails the lookup: on the hit path and on
\* the miss path alike the call returns the reading it obtained and no error,
\* and leaves the cache as it is; the miss path reaches the history write only
\* after its cache entry has been written.
C6_HistoryFailureSwallowed ==
  [][\A r \in Reqs :
       /\ (LookupEnds(r) /\ proc[r].pc = "save" /\ ~proc'[r].saved)
            => /\ proc'[r].error = NoError
               /\ proc'[r].result = proc[r].weatherData
               /\ proc'[r].result # NoData
               /\ history' = history
               /\ cache' = cache
       /\ (proc[r].op = "weather" /\ proc[r].pc # "save" /\ proc'[r].pc = "save"
           /\ ~proc'[r].hit)
            => /\ proc[r].pc = "setEx"
               /\ proc[r].cacheKey \in DOMAIN cache'
               /\ JSONparse(cache'[proc[r].cacheKey].value) = JSONparse(JSONstringify(proc[r].weatherData))
  ]_vars

C6_Witness ==
  \E r1, r2 \in Reqs :
    /\ proc[r1].op = "weather" /\ proc[r1].pc = "done"
    /\ proc[r1].hit /\ ~proc[r1].saved /\ proc[r1].result # NoData
    /\ proc[r2].op = "weather" /\ proc[r2].pc = "done"
    /\ ~proc[r2].hit /\ ~proc[r2].saved /\ proc[r2].result # NoData
    /\ history = << >>
    /\ DOMAIN cache # {}

\* C7: the cache is only an optimization - a lookup that the provider answered
\* with a reading succeeds and returns a reading, whatever the cache does
\* (entry absent, read failing, write failing).
C7_CacheNeverFailsLookup ==
  \A r \in Reqs :
    (proc[r].op = "weather" /\ proc[r].pc = "done" /\ proc[r].status = 200)
      => proc[r].error = NoError /\ proc[r].result # NoData

\* a lookup whose cache read was answered and that is still in flight
InFlight(r) == proc[r].op = "weather" /\ proc[r].pc \in {"fetch", "setEx", "save"}

\* C8 as stated: the first lookup of a city after clearCache(city) has deleted
\* its key is a cache miss, whatever other lookups were in flight.
C8_ClearThenMissAlways ==
  \A r \in Reqs :
    (InFlight(r) /\ proc[r].afterClear \in {"cleared", "rewritten"}) => ~proc[r].hit

\* C8, amended: the first lookup of a city (in any casing) whose cache read is
\* answered after clearCache(city) has deleted the key is a cache miss and goes
\* to the provider, provided no lookup has written the key since the delete.
C8_ClearThenMiss ==
  \A r \in Reqs :
    (InFlight(r) /\ proc[r].afterClear = "cleared")
      => /\ ~proc[r].hit
         /\ proc[r].pc = "fetch" => proc[r].q = proc[r].city
         /\ proc[r].pc # "fetch" => proc[r].providerCalls = 1

C8_Witness ==
  \E r, c \in Reqs :
    /\ InFlight(r) /\ proc[r].afterClear = "cleared" /\ proc[r].pc = "setEx"
    /\ proc[c].op = "clear" /\ proc[c].pc = "done" /\ proc[c].error = NoError
    /\ proc[c].city # proc[r].city
    /\ toLowerCase(proc[c].city) = toLowerCase(proc[r].city)

\* clearCache without a city returns normally in this step
ClearAllEnds(r) ==
  /\ proc'[r].op = "clear" /\ proc'[r].pc = "done" /\ proc'[r].error = NoError
  /\ \/ proc[r].op = "clear" /\ proc[r].pc = "del"
     \/ Starts(r) /\ proc'[r].city = EmptyString

\* C9 as stated: when clearCache() returns no weather:* key is left, whatever
\* lookups wrote between its key scan and its delete.
C9_ClearAllLeavesNothing ==
  [][\A r \in Reqs : ClearAllEnds(r) => {k \in DOMAIN cache' : Head(k) = "weather:"} = {}]_vars

\* C9, amended: clearCache() scans all weather:* keys and deletes exactly the
\* scanned keys in one batch: when it returns none of the scanned keys is left,
\* and a key that a lookup wrote between the scan and the delete stays; no key
\* is left when no such write happened.
C9_ClearAllDeletesScanned ==
  [][\A r \in Reqs :
       /\ (Starts(r) /\ proc'[r].op = "clear" /\ proc'[r].pc = "del")
            => proc'[r].keys = DOMAIN cache /\ cache' = cache
       /\ ClearAllEnds(r)
            => /\ \A k \in proc'[r].keys : k \notin DOMAIN cache'
               /\ \A k \in DOMAIN cache \ proc'[r].keys :
                    k \in DOMAIN cache' /\ cache'[k] = cache[k]
               /\ DOMAIN cache \subseteq proc'[r].keys => DOMAIN cache' = {}
               /\ proc[r].pc # "del" => DOMAIN cache = {}
  ]_vars

C9_Witness ==
  \E r \in Reqs :
    /\ proc[r].op = "clear" /\ proc[r].pc = "done" /\ proc[r].error = NoError
    /\ Cardinality(proc[r].keys) = 2
    /\ DOMAIN cache = {}

\* the findMany of request r is answered in this step
FindStep(r) ==
  /\ proc[r].op = "queries" /\ proc'[r].error = NoError
  /\ \/ proc[r].pc = "query" /\ proc'[r].pc = "counting"
     \/ proc[r].pc = "finding" /\ proc'[r].pc = "done"

\* the count of request r is answered in this step
CountStep(r) ==
  /\ proc[r].op = "queries" /\ proc'[r].error = NoError
  /\ \/ proc[r].pc = "query" /\ proc'[r].pc = "finding"
     \/ proc[r].pc = "counting" /\ proc'[r].pc = "done"

\* the positions of the history records a caller may see
Visible(userId, role) ==
  {i \in 1..Len(history) : role = "ADMIN" \/ history[i].userId = userId}

Occurrences(seq, positions, rec) == Cardinality({i \in positions : seq[i] = rec})

\* C10: a history read by an ADMIN returns records of every owner (all of them
\* when one page holds them), a read by any other role returns only records
\* whose userId is the caller's, and total is the number of those visible
\* records.
C10_HistoryVisibility ==
  [][\A r \in Reqs :
       LET p == proc[r]
           visible == Visible(p.userId, p.role)
           data == proc'[r].data
       IN /\ FindStep(r)
               => /\ \A i \in 1..Len(data) : \E j \in visible : history[j] = data[i]
                  /\ p.role # "ADMIN" => \A i \in 1..Len(data) : data[i].userId = p.userId
                  /\ (p.page = 1 /\ p.limit >= Cardinality(visible))
                       => \A j \in visible :
                            Occurrences(data, 1..Len(data), history[j])
                              = Occurrences(history, visible, history[j])
          /\ CountStep(r) => proc'[r].total = Cardinality(visible)
  ]_vars

C10_Witness ==
  \E r \in Reqs :
    /\ proc[r].op = "queries" /\ proc[r].pc = "done" /\ proc[r].error = NoError
    /\ proc[r].role = "ADMIN" /\ proc[r].total = 2
    /\ \E i, j \in 1..Len(proc[r].data) : proc[r].data[i].userId # proc[r].data[j].userId

\* the position of the n-th newest of the rows at the positions S
NthNewest(S, n) == CHOOSE x \in S : Cardinality({y \in S : y > x}) = n - 1

\* C11: a history read with page >= 1 and 1 <= limit <= 100 gets the visible
\* rows at the positions (page-1)*limit+1 .. (page-1)*limit+limit of the
\* newest-first order (fewer when the rows run out), its total is the number of
\* visible rows, and totalPages is the least number of pages of `limit` rows
\* that hold `total` rows; a call without page and limit reads page 1 with
\* limit 10.
C11_Pagination ==
  [][\A r \in Reqs :
       LET p == proc[r]
           vis == Visible(p.userId, p.role)
           skip == (p.page - 1) * p.limit
           left == IF Cardinality(vis) > skip THEN Cardinality(vis) - skip ELSE 0
           pg == Pagination(proc'[r])
       IN /\ \A userId \in UserIds, userRole \in UserRole :
               GetWeatherQueriesDefault(r, userId, userRole)
                 => proc'[r].page = 1 /\ proc'[r].limit = 10
          /\ (FindStep(r) /\ p.page >= 1 /\ p.limit \in 1..100)
               => /\ Len(proc'[r].data) = IF left < p.limit THEN left ELSE p.limit
                  /\ \A i \in 1..Len(proc'[r].data) :
                       proc'[r].data[i] = history[NthNewest(vis, skip + i)]
          /\ CountStep(r) => proc'[r].total = Cardinality(vis)
          /\ (p.op = "queries" /\ p.pc # "done" /\ proc'[r].pc = "done"
                /\ proc'[r].error = NoError)
               => /\ pg.page = p.page /\ pg.limit = p.limit /\ pg.total = proc'[r].total
                  /\ pg.totalPages * p.limit >= pg.total
                  /\ pg.totalPages >= 0
                  /\ pg.totalPages > 0 => (pg.totalPages - 1) * p.limit < pg.total]_vars

C11_Witness ==
  \E r \in Reqs :
    /\ proc[r].op = "queries" /\ proc[r].pc = "done" /\ proc[r].error = NoError
    /\ proc[r].role = "USER" /\ proc[r].page = 1 /\ proc[r].limit = 10
    /\ proc[r].total = 25
    /\ Len(proc[r].data) = 10
    /\ proc[r].data[1].temperature = 25 /\ proc[r].data[10].temperature = 16
    /\ Pagination(proc[r]).totalPages = 3

\* a request to a protected route arrives at slot r in this step
Arrives(r) == Starts(r) /\ http'[r].route \in ProtectedRoutes

\* the handler of the request that arrived at slot r was not reached: no
\* service call started and nothing the services keep has changed
NotHandled(r) ==
  /\ proc'[r].op = "none"
  /\ UNCHANGED <<cache, history, cleared, users, created, tokens>>

\* C12: a request to a protected route without a token is answered 401 and one
\* whose token is malformed, signed with another secret or expired is answered
\* 403 'Invalid or expired token', in both cases without reaching the handler;
\* a request is let past the gate only with a valid token, whose payload
\* {userId, email, role} is then attached to it.
C12_AccessGate ==
  [][\A r \in Reqs :
       Arrives(r) =>
         LET token == TokenOf(http'[r].header)
             valid == /\ token.form = "jwt" /\ token.secret = JwtSecret
                      /\ token \in DOMAIN tokens /\ tokens[token] > 0
         IN /\ token = NoToken
                 => /\ http'[r].status = 401 /\ http'[r].error = AccessTokenRequired
                    /\ NotHandled(r)
            /\ (token # NoToken /\ ~valid)
                 => /\ http'[r].status = 403 /\ http'[r].error = InvalidOrExpiredToken
                    /\ NotHandled(r)
            /\ valid
                 => /\ http'[r].user = token.payload
                    /\ DOMAIN http'[r].user = {"userId", "email", "role"}
                    /\ http'[r].error \notin {AccessTokenRequired, InvalidOrExpiredToken}
            /\ ~valid => http'[r].user = NoIdentity]_vars

C12_Witness ==
  /\ http[1].route = History /\ http[1].status = 0 /\ http[1].user = UserToken.payload
  /\ proc[1].op = "queries"
  /\ http[2].route = History /\ http[2].status = 403
  /\ http[2].error = InvalidOrExpiredToken /\ proc[2].op = "none"

\* C13: requireRole(R) lets a request pass exactly when an identity is attached
\* and its role is in R; it answers 403 'Insufficient permissions' when the
\* role is not in R and 401 when no identity is attached.  R = {ADMIN} rejects
\* a USER, R = {USER, ADMIN} passes both roles.
C13_RoleCheck ==
  [][\A r \in Reqs, roles \in {AdminOnly, UserOrAdmin} :
       \A user \in {NoIdentity, UserToken.payload, AdminToken.payload} :
         RoleCheck(r, roles, user) =>
           LET passes == http'[r].status = 0
           IN /\ passes <=> (user # NoIdentity /\ user.role \in roles)
              /\ user = NoIdentity => http'[r].status = 401
              /\ (user # NoIdentity /\ user.role \notin roles)
                   => /\ http'[r].status = 403
                      /\ http'[r].error = InsufficientPermissions
              /\ (roles = {"ADMIN"} /\ user # NoIdentity /\ user.role = "USER") => ~passes
              /\ (roles = {"USER", "ADMIN"} /\ user # NoIdentity) => passes]_vars

C13_Witness ==
  \E r \in Reqs :
    /\ http[r].route = "requireRole" /\ http[r].status = 403
    /\ http[r].error = InsufficientPermissions
    /\ http[r].user # NoIdentity /\ http[r].user.role = "USER"

\* the token of the request at slot r after this step is an issued token of a
\* USER that has not expired, and one that has expired
ValidUserToken(r) ==
  LET token == TokenOf(http'[r].header)
  IN /\ token \in DOMAIN tokens /\ tokens[token] > 0
     /\ token.payload.role = "USER"

ExpiredToken(r) ==
  LET token == TokenOf(http'[r].header)
  IN token \in DOMAIN tokens /\ tokens[token] = 0

\* C14 as stated: a valid USER token on an ADMIN-only route is answered 403
\* without the admin operation, and an absent or an expired token on a
\* protected route is answered 401.
C14_AbsentOrExpiredIs401 ==
  [][\A r \in Reqs :
       Arrives(r) =>
         /\ (http'[r].route \in AdminRoutes /\ ValidUserToken(r))
              => http'[r].status = 403 /\ NotHandled(r)
         /\ (TokenOf(http'[r].header) = NoToken \/ ExpiredToken(r))
              => http'[r].status = 401]_vars

\* C14: a valid USER token on an ADMIN-only route is answered 403
\* 'Insufficient permissions' without the admin operation; on every protected
\* route an absent token is answered 401 and an expired token 403 'Invalid or
\* expired token', and the handler is not reached.
C14_AdminRoutesGuarded ==
  [][\A r \in Reqs :
       Arrives(r) =>
         /\ (http'[r].route \in AdminRoutes /\ ValidUserToken(r))
              => /\ http'[r].status = 403 /\ http'[r].error = InsufficientPermissions
                 /\ NotHandled(r)
         /\ TokenOf(http'[r].header) = NoToken
              => http'[r].status = 401 /\ NotHandled(r)
         /\ ExpiredToken(r)
              => /\ http'[r].status = 403 /\ http'[r].error = InvalidOrExpiredToken
                 /\ NotHandled(r)]_vars

C14_Witness ==
  \E r \in Reqs :
    /\ http[r].route = ClearCacheRoute /\ http[r].header.scheme = "Bearer"
    /\ http[r].header.token = UserToken /\ tokens[UserToken] > 0
    /\ http[r].status = 403 /\ http[r].error = InsufficientPermissions
    /\ proc[r].op = "none"

\* C15: a login with an email that no user has and a login with the email of a
\* user but a wrong password both fail with 'Invalid email or password' and
\* status 401 (the datastore's own message when the lookup of the user fails),
\* and neither issues a token.
C15_LoginFailuresAlike ==
  [][\A r \in Reqs, input \in LoginInputs :
       Http(r, Login, NoHeader, input) =>
         LET user == FindUniqueByEmail(input.email)
             unknown == user = NoUser
             wrong == user # NoUser /\ user.password # Hash(input.password)
         IN (unknown \/ wrong) =>
              /\ tokens' = tokens
              /\ proc'[r].token = NoToken
              /\ Response(r)'.status = 401
              /\ Response(r)'.error = proc'[r].error
              /\ proc'[r].error \in {InvalidLoginError, DatabaseError}]_vars

C15_Witness ==
  \E r \in Reqs :
    /\ http[r].route = Login /\ proc[r].op = "login" /\ proc[r].pc = "done"
    /\ proc[r].error = InvalidLoginError /\ Response(r).status = 401
    /\ WithEmail(proc[r].email) # {}
    /\ tokens = << >>

\* the create of the registration at slot r is answered in this step
CreateEnds(r) ==
  proc[r].op = "register" /\ proc[r].pc = "create" /\ proc'[r].pc = "done"

\* C16 as stated: every registration for an email that a user has already
\* fails with 'User with this email already exists' and status 400 and creates
\* no user, also when two registrations for the same new email run
\* concurrently: one succeeds and the other gets the conflict error.
C16_DuplicateGetsConflictError ==
  [][\A r \in Reqs :
       (CreateEnds(r) /\ WithEmail(proc[r].email) # {} /\ proc'[r].error # DatabaseError)
         => /\ users' = users
            /\ proc'[r].error = ConflictError
            /\ Response(r)'.status = 400]_vars

NoDuplicateEmail(table) ==
  \A i, j \in 1..Len(table) : table[i].email = table[j].email => i = j

\* C17: no two rows of the users table ever have the same email, whatever the
\* interleaving of registrations and deletions.
C17_EmailUnique == NoDuplicateEmail(users)

C17_Witness ==
  \E r \in Reqs :
    /\ proc[r].op = "register" /\ proc[r].pc = "done"
    /\ proc[r].error = UniqueConstraintError
    /\ Cardinality(WithEmail(proc[r].email)) = 1

\* a deleteUser call at slot r deletes the user in this step
Deletes(r) ==
  Starts(r) /\ proc'[r].op = "delete" /\ proc'[r].error = NoError

\* C18: the userId of every history row is the id of exactly one user; a
\* deleteUser(u) removes the row of u and the history rows of u and no others;
\* every other step leaves the history rows as they are or appends one row.
C18_OwnedHistory ==
  [][/\ \A i \in 1..Len(history') :
          Cardinality({j \in 1..Len(users') : users'[j].id = history'[i].userId}) = 1
     /\ \A r \in Reqs :
          Deletes(r) =>
            LET u == proc'[r].userId
            IN /\ users' = SelectSeq(users, LAMBDA row : row.id # u)
               /\ Len(users') = Len(users) - 1
               /\ history' = SelectSeq(history, LAMBDA rec : rec.userId # u)
     /\ (\A r \in Reqs : ~Deletes(r))
          => \/ history' = history
             \/ /\ Len(history') = Len(history) + 1
                /\ SubSeq(history', 1, Len(history)) = history]_vars

C18_Witness ==
  \E r, q \in Reqs :
    /\ proc[r].op = "delete" /\ proc[r].pc = "done" /\ proc[r].error = NoError
    /\ proc[r].userId = "u1"
    /\ proc[q].op = "weather" /\ proc[q].pc = "done" /\ proc[q].saved
    /\ Len(history) = 1 /\ history[1].userId = "u2"

WeatherFields == {"city", "country", "temperature", "humidity", "description", "icon"}

\* two readings have the same fields with the same values
SameReading(a, b) == \A f \in WeatherFields : Prop(a, f) = Prop(b, f)

\* two history rows differ at most in their owner
SameRow(a, b) == [a EXCEPT !.userId = ""] = [b EXCEPT !.userId = ""]

\* a lookup that has returned its reading: on a miss, and on a hit
MissDone(r) ==
  /\ proc[r].op = "weather" /\ proc[r].pc = "done" /\ proc[r].error = NoError
  /\ ~proc[r].hit /\ proc[r].providerCalls = 1

HitDone(r) ==
  /\ proc[r].op = "weather" /\ proc[r].pc = "done" /\ proc[r].error = NoError
  /\ proc[r].hit /\ proc[r].providerCalls = 0

\* C19: the reading a cache miss returns and the reading a later cache hit
\* returns from the entry of that miss have the same fields with the same
\* values, and the history rows of the two lookups differ at most in id,
\* timestamp and owner.  The entry a miss writes parses to the reading the miss
\* returns; of two lookups, a miss and the hit it serves, the readings and the
\* rows agree.
C19_HitEqualsMiss ==
  /\ [](started = 2 =>
          /\ \A r, q \in Reqs : (MissDone(r) /\ HitDone(q))
                => SameReading(proc[r].result, proc[q].result)
          /\ ((\E q \in Reqs : HitDone(q)) /\ Len(history) = 2)
                => SameRow(history[1], history[2]))
  /\ [][\A r \in Reqs :
          (proc[r].pc = "setEx" /\ proc'[r].pc = "save")
            => LET entry == JSONparse(cache'[proc[r].cacheKey].value)
               IN /\ SameReading(entry, proc[r].weatherData)
                  /\ SameRow(WeatherQueryData(entry, ""),
                              WeatherQueryData(proc[r].weatherData, ""))]_vars

C19_Witness ==
  /\ started = 2
  /\ MissDone(1) /\ HitDone(2)
  /\ proc[1].result.country = Undefined /\ "country" \notin DOMAIN proc[2].result
  /\ proc[1].saved /\ proc[2].saved /\ Len(history) = 2
  /\ history[1].userId # history[2].userId

\* the client's sequence is complete: its history read, sent at slot r, has been
\* answered 200
JourneyDone(r) ==
  /\ client = "history"
  /\ http[r].route = History /\ Response(r).status = 200

\* C20 as stated: from the empty store, register(u), login(u), a lookup
\* answered 200 and a history read with the same token return exactly one row,
\* owned by u, with total = 1.
C20_JourneyOneRecord ==
  \A r \in Reqs :
    JourneyDone(r) =>
      /\ Len(proc[r].data) = 1
      /\ proc[r].data[1].userId = http[r].user.userId
      /\ proc[r].total = 1

\* C20: from the empty store, register(u), login(u), a lookup answered 200 and a
\* history read with the same token return exactly one row, owned by u, with
\* total = 1 when the history row of the lookup was written; when its write
\* failed, which the lookup does not report, they return no row and total = 0.
C20_JourneyOwnRecord ==
  \A r \in Reqs :
    /\ (proc[r].op = "weather" /\ proc[r].pc = "done" /\ proc[r].error = NoError)
         => (proc[r].saved <=> Len(history) = 1)
    /\ JourneyDone(r) =>
      /\ Len(users) = 1 /\ http[r].user.userId = users[1].id
      /\ Len(history) <= 1
      /\ proc[r].data = history
      /\ proc[r].total = Len(history)
      /\ \A i \in 1..Len(proc[r].data) : proc[r].data[i].userId = users[1].id

C20_Witness ==
  \E r \in Reqs :
    /\ JourneyDone(r)
    /\ Len(proc[r].data) = 1 /\ proc[r].total = 1
    /\ proc[r].data[1].userId = "u1" /\ proc[r].data[1].city = <<"I", "s">>
    /\ users[1].role = "USER"

\* ---------------------------------------------------------------- C21
\* request r has been answered by the global error handler
ByErrorHandler(r) == http[r].status = 500

\* request r has been answered by the catch block of its controller
ByController(r) ==
  http[r].route # "none" /\ http[r].status = 0 /\ proc[r].pc = "done" /\ proc[r].error # NoError

\* C21 as stated: in production every response with a 500-class status carries
\* the generic 'Server error', not the message of the error.
C21_ProductionMasksEvery500 ==
  \A r \in Reqs :
    (nodeEnv = "production" /\ Response(r).status >= 500) => Response(r).error = ServerError

\* C21: a failure that reaches the global error handler is answered 500, with
\* 'Server error' in production and with the message of the error otherwise; a
\* failure answered by a controller carries the message of the error the
\* controller caught in production as in every other mode, also with status
\* 500, and no response below 500 is masked.
C21_ErrorSurfacing ==
  \A r \in Reqs :
    /\ ByErrorHandler(r) =>
         Response(r) = [status |-> 500,
                        error |-> IF nodeEnv = "production" THEN ServerError
                                                            ELSE MalformedJsonError]
    /\ ByController(r) =>
         /\ Response(r).error = proc[r].error
         /\ Response(r).error # ServerError
    /\ Response(r).status \in 400..499 => Response(r).error \notin {ServerError, NoError}

C21_Witness ==
  /\ nodeEnv = "production"
  /\ ByErrorHandler(1) /\ Response(1).error = ServerError
  /\ ByController(2) /\ http[2].route = ListUsers
  /\ Response(2) = [status |-> 500, error |-> FetchUsersError]

\* ---------------------------------------------------------------- C22
\* the lookup of request r has ended in the not-found error of its city
CityNotFound(r) ==
  /\ http[r].route = Current /\ proc[r].pc = "done"
  /\ \E city \in Cities : proc[r].error = NotFoundError(city)

\* the getUserById of request r has found no row
UserNotFound(r) ==
  http[r].route = GetUser /\ proc[r].pc = "done" /\ proc[r].error = UserNotFoundError

\* C22 as stated: a getUserById for an id that does not exist and a lookup whose
\* city the provider reports as not found are both answered 404 with the
\* not-found message.
C22_NotFoundIs404 ==
  \A r \in Reqs :
    (CityNotFound(r) \/ UserNotFound(r)) =>
      Response(r) = [status |-> 404, error |-> proc[r].error]

\* C22: a getUserById for an id that does not exist is answered 404 with 'User
\* not found'; a lookup whose city the provider reports as not found (HTTP 404
\* from the provider) is answered 400 with the not-found message of the city.
C22_NotFoundStatus ==
  \A r \in Reqs :
    /\ UserNotFound(r) => Response(r) = [status |-> 404, error |-> UserNotFoundError]
    /\ CityNotFound(r) =>
         /\ proc[r].status = 404
         /\ Response(r) = [status |-> 400, error |-> NotFoundError(<<"I", "s">>)]

C22_Witness ==
  /\ UserNotFound(1) /\ Response(1).status = 404
  /\ CityNotFound(2) /\ Response(2).status = 400

\* ---------------------------------------------------------------- C23
\* the fields of the user objects a response of request r carries
FieldsSent(r) ==
  UNION ({DOMAIN proc[r].user} \cup {DOMAIN proc[r].data[i] : i \in 1..Len(proc[r].data)})

AccountOps == {"register", "login", "users", "user", "delete"}

\* C23: no response of register, login, getAllUsers, getUserById or deleteUser
\* carries a password field, hashed or plain, and the token of a login carries
\* only userId, email and role; the password stored with a user row is the
\* bcrypt hash of the password that was sent, never the password itself.
C23_PasswordStaysInside ==
  /\ \A r \in Reqs :
       (proc[r].op \in AccountOps /\ proc[r].pc = "done") =>
         /\ "password" \notin FieldsSent(r)
         /\ proc[r].password = Idle.password
         /\ proc[r].token # NoToken =>
              DOMAIN proc[r].token.payload = {"userId", "email", "role"}
  /\ \A i \in 1..Len(users) :
       /\ \E password \in Passwords : users[i].password = Hash(password)
       /\ users[i].password \notin Passwords

\* an account registered with password 'secret1' has logged in: the row holds
\* the hash, the response the user without it
C23_Witness ==
  \E r \in Reqs :
    /\ users[Len(users)].id = UserIdOf(3)
    /\ users[Len(users)].password = Hash("secret1")
    /\ proc[r].op = "login" /\ proc[r].pc = "done"
    /\ proc[r].user = SelectUser(users[Len(users)])
    /\ proc[r].token # NoToken

\* ---------------------------------------------------------------- C24
\* C24 as stated: every getWeatherData call that waits for the provider
\* eventually completes, with a reading or an error.
C24_LookupCompletes ==
  \A r \in Reqs : (proc[r].pc = "fetch") ~> (proc[r].pc = "done")

\* ---------------------------------------------------------------- C25
\* the two lookups of the run were both cache misses and both have returned a
\* reading: the second read the cache before the first wrote it
BothMissed ==
  started = 2 /\ \A r \in Reqs : proc[r].op = "weather" /\ proc[r].pc = "done"
                                   /\ proc[r].error = NoError /\ ~proc[r].hit

TheKey == CacheKey(<<"I", "s">>)

\* C25 as stated: once k concurrent lookups of an uncached city, all of them
\* misses, have completed, k history records exist.
C25_EveryMissRecorded == BothMissed => Len(history) = Cardinality(Reqs)

\* request r writes the cache, and returns from a miss, in this step
WritesCache(r) == proc[r].pc = "setEx" /\ proc'[r].pc = "save"
ReturnsMiss(r) == proc[r].pc = "save" /\ ~proc[r].hit /\ proc'[r].pc = "done"

\* C25: concurrent lookups of an uncached city are not coalesced. Each of them
\* that misses calls the provider once and writes the cache, its write replacing
\* whatever entry is there (last write wins); each returns the reading it
\* fetched itself; once all have completed the entry holds the reading of one of
\* them, and one history record exists for every lookup whose history write
\* succeeded (a failed history write is not reported by the lookup).
C25_NoCoalescing ==
  /\ [](BothMissed =>
          /\ \A r \in Reqs : proc[r].providerCalls = 1
          /\ TheKey \in DOMAIN cache
          /\ \E r \in Reqs : cache[TheKey].value = JSONstringify(proc[r].result)
          /\ Len(history) = Cardinality({r \in Reqs : proc[r].saved})
          /\ (\A r \in Reqs : proc[r].saved) =>
               \E first \in Reqs : \E second \in Reqs \ {first} :
                 /\ history[1] = WeatherQueryData(proc[first].result, "u1")
                 /\ history[2] = WeatherQueryData(proc[second].result, "u1"))
  /\ [][\A r \in Reqs :
          /\ WritesCache(r) =>
               cache'[TheKey] = [value |-> JSONstringify(proc[r].weatherData),
                                 ttl |-> cacheExpiry, writer |-> proc[r].city]
          /\ ReturnsMiss(r) =>
               /\ proc'[r].result = proc[r].weatherData
               /\ proc'[r].providerCalls = 1]_vars

\* two misses that fetched different readings: the entry holds the one, the
\* history both
C25_Witness ==
  /\ BothMissed
  /\ proc[1].result # proc[2].result
  /\ cache[TheKey].value = JSONstringify(proc[1].result)
  /\ Len(history) = 2 /\ history[1].city # history[2].city

\* ---------------------------------------------------------------- C26
SchemaOf(route) ==
  CASE route = Register -> "userCreate"
    [] route = Login -> "userLogin"
    [] route = Current -> "weatherQuery"
    [] route = History -> "pagination"

\* nothing is read from or written to the cache, the provider or the datastore
\* in this step, and no service call is under way at slot r after it
NothingTouched(r) ==
  /\ UNCHANGED <<cache, history, users, created, tokens>>
  /\ proc'[r] = Idle
  /\ \A q \in Reqs \ {r} : proc'[q] = proc[q]

\* C26: a request to register, login, POST /weather/current or GET
\* /weather/history whose body or query string the schema rejects is answered
\* 400 with the validation message, and no cache, provider or datastore
\* operation is made for it. On the two weather routes the token check runs
\* first: such a request without a token is answered 401 and with a token that
\* does not verify 403, by the gate, and is not answered 400.
C26_ValidationShortCircuits ==
  [][\A r \in Reqs, route \in ValidatedRoutes :
       \A header \in ValidationHeaders(route), input \in ValidationInputs(route) :
         (Offending(SchemaOf(route), input) # "" /\ Http(r, route, header, input)) =>
           /\ NothingTouched(r)
           /\ http'[r].error # NoError
           /\ http'[r].status =
                IF route \in ProtectedRoutes /\ header = NoHeader THEN 401
                ELSE IF route \in ProtectedRoutes /\ header = Bearer(GarbageToken) THEN 403
                ELSE 400
           /\ http'[r].status = 400 =>
                http'[r].error = ValidationError(Offending(SchemaOf(route), input))
           /\ http'[r].status = 401 => http'[r].error = AccessTokenRequired
           /\ http'[r].status = 403 => http'[r].error = InvalidOrExpiredToken]_vars

\* a lookup without a city sent with a valid token has been answered 400 while
\* a lookup of a city is under way, and the cache, the history and the users
\* are as they were
C26_Witness ==
  /\ proc[1].op = "weather" /\ proc[1].pc = "fetch"
  /\ http[2].route = Current /\ http[2].header = Bearer(UserToken)
  /\ http[2].status = 400 /\ http[2].error = ValidationError("city")
  /\ proc[2] = Idle /\ cache = << >> /\ history = << >> /\ Len(users) = 1

\* ---------------------------------------------------------------- C27
\* the account of the USER has been deleted and its token has not expired
DeletedWithToken == ~UserExists(UserIdOf(1)) /\ tokens[UserToken] > 0

\* a request with the token of the USER arrives at slot r in this step
SentByUser(r) == Starts(r) /\ http'[r].header = Bearer(UserToken)

\* the lookup of request r makes its history write and returns in this step
Returns(r) == proc[r].op = "weather" /\ proc[r].pc = "save" /\ proc'[r].pc = "done"

Max(a, b) == IF a >= b THEN a ELSE b
Min(a, b) == IF a <= b THEN a ELSE b

\* C28 as stated: the page and the total one getWeatherQueries call returns are
\* consistent, also while lookups insert history rows: the page holds at most
\* max(0, min(limit, total - (page-1)*limit)) rows.
C28_PageWithinTotal ==
  \A r \in Reqs :
    (proc[r].op = "queries" /\ proc[r].pc = "done" /\ proc[r].error = NoError) =>
      Len(proc[r].data) <=
        Max(0, Min(proc[r].limit, proc[r].total - (proc[r].page - 1) * proc[r].limit))

\* ---------------------------------------------------------------- C29
\* request r is on the miss path, about to write the entry of key k
MissWrites(r, k) == proc[r].pc = "setEx" /\ ~proc[r].hit /\ proc[r].cacheKey = k

\* request r starts a lookup in this step and finds the entry of its key
HitStarts(r) == Starts(r) /\ proc'[r].op = "weather" /\ proc'[r].hit

\* C29: an entry is written only on the miss path and always with 300 seconds
\* to live; no other step of a lookup, a cache hit in particular, rewrites an
\* entry or adds to the time it has left, which only goes down as time passes.
\* So no entry outlives 300 seconds: a reading served from the cache was written
\* less than 300 seconds before, and a lookup that starts once 300 seconds have
\* passed since the last write of its key finds no entry and calls the provider.
C29_EntriesLive300 ==
  /\ [](\A k \in DOMAIN cache : cache[k].ttl > 0 /\ cache[k].ttl <= 300)
  /\ [][/\ \A k \in DOMAIN cache' :
            (k \notin DOMAIN cache \/ cache'[k].value # cache[k].value
               \/ cache'[k].ttl > cache[k].ttl) =>
              /\ cache'[k].ttl = 300
              /\ \E r \in Reqs : MissWrites(r, k) /\ proc'[r].pc = "save"
        /\ \A r \in Reqs :
             /\ HitStarts(r) =>
                  /\ cache' = cache
                  /\ proc'[r].providerCalls = 0
             /\ (proc[r].hit /\ proc[r].pc = "save" /\ proc'[r].pc = "done") => cache' = cache
             /\ (Starts(r) /\ proc'[r].op = "weather" /\ proc'[r].pc # "done"
                   /\ proc'[r].cacheKey \notin DOMAIN cache) =>
                  proc'[r].pc = "fetch"]_vars

\* an entry written one clock step ago has served a hit and has the time left
\* that it had before the hit
C29_Witness ==
  \E r \in Reqs :
    /\ proc[r].op = "weather" /\ proc[r].pc = "done" /\ proc[r].hit
    /\ proc[r].error = NoError
    /\ TheKey \in DOMAIN cache /\ cache[TheKey].ttl = cacheExpiry - TickStep

\* ---------------------------------------------------------------- C30
\* the create of the registration at slot r inserts its row in this step
Registers(r) == proc[r].pc = "create" /\ proc'[r].pc = "done" /\ proc'[r].error = NoError

\* C30: registration needs no token and takes the role from the caller. A
\* registration is never turned away by the gate; the row it creates has the
\* role of the body, ADMIN included, and USER when the body has none; a login
\* gives a token with the role of the row; and a token passes the ADMIN-only
\* gate exactly when that role is ADMIN, so the token of an account registered
\* with role ADMIN reaches the list of users and the token of one registered
\* without a role is answered 403.
C30_CallerChosenRole ==
  /\ [](\A t \in DOMAIN tokens :
          \E i \in 1..Len(users) :
            users[i].id = t.payload.userId /\ users[i].role = t.payload.role)
  /\ [][\A r \in Reqs :
          /\ (Starts(r) /\ http'[r].route = Register) =>
               /\ http'[r].header = NoHeader
               /\ http'[r].status = 0 /\ proc'[r].op = "register"
          /\ Registers(r) =>
               /\ Len(users') = Len(users) + 1
               /\ users'[Len(users')].role =
                    IF proc[r].role = Undefined THEN "USER" ELSE proc[r].role
          /\ (Starts(r) /\ http'[r].route = ListUsers) =>
               IF http'[r].header.token.payload.role = "ADMIN"
               THEN http'[r].status = 0 /\ proc'[r].op = "users"
               ELSE /\ http'[r].status = 403 /\ http'[r].error = InsufficientPermissions
                    /\ proc'[r] = Idle]_vars

\* on a store that was empty, a caller has registered as ADMIN, logged in and
\* read the list of users with the token
C30_Witness ==
  \E r \in Reqs :
    /\ http[r].route = ListUsers /\ Response(r).status = 200
    /\ http[r].user.role = "ADMIN"
    /\ Len(users) = 1 /\ users[1].role = "ADMIN" /\ users[1].id = http[r].user.userId
    /\ Len(proc[r].data) = 1

====
